---- MODULE Spec2Model ----
(***************************************************************************)
(* State-machine model of the DAVE media plane of D++ (Neko-Life/DPP):     *)
(* the per-ratchet cipher manager (src/dpp/dave/cryptor_manager.cpp), the  *)
(* inbound decryptor (decryptor.cpp), the outbound encryptor               *)
(* (encryptor.cpp) and the transport layer of the voice client             *)
(* (discordvoiceclient.cpp).                                               *)
(*                                                                         *)
(* Representation.  Time points are integers in milliseconds.  A 32-bit    *)
(* truncated_sync_nonce is the record [gen, seq] of its two bit fields:    *)
(* gen = nonce >> RATCHET_GENERATION_SHIFT_BITS (the top 8 bits) and       *)
(* seq = nonce & ((1 << RATCHET_GENERATION_SHIFT_BITS) - 1) (the low 24    *)
(* bits), so that the whole 32-bit range, including the wrap of ++ at      *)
(* 2^32, stays inside the integers the model checker evaluates.  A         *)
(* 64-bit big_nonce (generation << 24) | seq is likewise the record        *)
(* [gen, seq] of the wrapped generation and the low 24 bits, ordered and   *)
(* incremented as the integer it stands for.  A cipher is the key it was   *)
(* created from, <<ratchet, generation>>; AEAD is symbolic: a ciphertext   *)
(* opens only under the key, nonce and additional data it was sealed with. *)
(***************************************************************************)
EXTENDS Integers, Sequences, FiniteSets, TLC

\* ------------------------------------------------------------------------
\* Program constants
\* ------------------------------------------------------------------------
RATCHET_GENERATION_SHIFT_BITS == 24
MAX_GENERATION_GAP == 250
MAX_MISSING_NONCES == 50
MAX_FRAMES_PER_SECOND == 50
\* CIPHER_EXPIRY = 10 s, in milliseconds
CIPHER_EXPIRY == 10000
\* std::chrono::seconds in clock ticks (milliseconds)
TicksPerSecond == 1000
\* time_point::max()
TimePointMax == 2147483647
\* 8 * sizeof(truncated_sync_nonce)
TruncatedNonceBits == 32

SeqWrap == 2 ^ RATCHET_GENERATION_SHIFT_BITS
GenBitsWrap == 2 ^ (TruncatedNonceBits - RATCHET_GENERATION_SHIFT_BITS)
GENERATION_WRAP == 2 ^ RATCHET_GENERATION_SHIFT_BITS

\* ------------------------------------------------------------------------
\* Bounds of the model
\* ------------------------------------------------------------------------
\* clock advances per behaviour
MaxTicks == 3

\* ------------------------------------------------------------------------
\* Helpers
\* ------------------------------------------------------------------------
Min(a, b) == IF a < b THEN a ELSE b

\* std::optional: <<>> is nullopt, <<v>> holds v
None == <<>>
Some(v) == <<v>>

\* a truncated_sync_nonce from its two bit fields
Nonce(g, s) == [gen |-> g, seq |-> s]

\* big_nonce arithmetic: <, >, + 1 and - k (for 0 <= k <= 2^24) on the 64-bit value
BigLess(a, b) == a.gen < b.gen \/ (a.gen = b.gen /\ a.seq < b.seq)

BigSucc(a) == IF a.seq = SeqWrap - 1 THEN Nonce(a.gen + 1, 0) ELSE Nonce(a.gen, a.seq + 1)

BigMinus(a, k) ==
    IF a.seq >= k THEN Nonce(a.gen, a.seq - k) ELSE Nonce(a.gen - 1, a.seq + SeqWrap - k)

BigMax(a, b) == IF BigLess(a, b) THEN b ELSE a

\* time a ratchet needs before get_cipher admits one more generation:
\* the least whole number of seconds s with (MAX_FRAMES_PER_SECOND * s) >> 24 >= 1
GenerationSeconds == (SeqWrap \div MAX_FRAMES_PER_SECOND) + 1

\* ------------------------------------------------------------------------
\* IKeyRatchet: GetKey / DeleteKey.  deleted = generations DeleteKey was
\* called for; refused = generations requested at or below a deleted one.
\* ------------------------------------------------------------------------
NewRatchet(id) == [id |-> id, deleted |-> {}, refused |-> {}]

GetKey(r, generation) ==
    IF \E d \in r.deleted : generation <= d
    THEN [r EXCEPT !.refused = @ \cup {generation}]
    ELSE r

DeleteKey(r, generation) == [r EXCEPT !.deleted = @ \cup {generation}]

\* ------------------------------------------------------------------------
\* cryptor_manager.cpp
\* ------------------------------------------------------------------------
compute_wrapped_generation(oldest, generation) ==
    LET remainder == oldest % GENERATION_WRAP
        factor == (oldest \div GENERATION_WRAP) + (IF generation < remainder THEN 1 ELSE 0)
    IN  factor * GENERATION_WRAP + generation

compute_wrapped_big_nonce(generation, nonce) ==
    LET maskedNonce == nonce.seq
    IN  Nonce(generation, maskedNonce)

\* aead_cipher_manager::aead_cipher_manager
NewManager(clockNow, ratchetId) ==
    [ keyRatchet_ |-> NewRatchet(ratchetId),
      ratchetCreation_ |-> clockNow,
      ratchetExpiry_ |-> TimePointMax,
      cryptors_ |-> <<>>,
      oldestGeneration_ |-> 0,
      newestGeneration_ |-> 0,
      newestProcessedNonce_ |-> None,
      missingNonces_ |-> <<>> ]

InSeq(s, v) == \E i \in 1..Len(s) : s[i] = v

can_process_nonce_AnyNonce(m, generation, nonce) == TRUE

can_process_nonce(m, generation, nonce) ==
    IF m.newestProcessedNonce_ = None
    THEN TRUE
    ELSE LET bigNonce == compute_wrapped_big_nonce(generation, nonce)
         IN  BigLess(m.newestProcessedNonce_[1], bigNonce)
             \/ InSeq(m.missingNonces_, bigNonce)

\* the while loop of cleanup_expired_ciphers
RECURSIVE DeleteOldKeys(_)
DeleteOldKeys(m) ==
    IF m.oldestGeneration_ < m.newestGeneration_
       /\ m.oldestGeneration_ \notin DOMAIN m.cryptors_
    THEN DeleteOldKeys([m EXCEPT !.keyRatchet_ = DeleteKey(@, m.oldestGeneration_),
                                 !.oldestGeneration_ = @ + 1])
    ELSE m

cleanup_expired_ciphers_KeepKeys(m, clockNow) ==
    LET live == {g \in DOMAIN m.cryptors_ : ~(m.cryptors_[g].expiry < clockNow)}
    IN  [m EXCEPT !.cryptors_ = [g \in live |-> m.cryptors_[g]]]

\* lines 185-204
cleanup_expired_ciphers(m, clockNow) ==
    LET live == {g \in DOMAIN m.cryptors_ : ~(m.cryptors_[g].expiry < clockNow)}
    IN  DeleteOldKeys([m EXCEPT !.cryptors_ = [g \in live |-> m.cryptors_[g]]])

\* returns the manager (its ratchet has served GetKey) and the new map entry
make_expiring_cipher(m, generation, clockNow) ==
    [ ratchet |-> GetKey(m.keyRatchet_, generation),
      entry |-> [ key |-> <<m.keyRatchet_.id, generation>>,
                  expiry |-> IF generation < m.newestGeneration_
                             THEN clockNow + CIPHER_EXPIRY
                             ELSE TimePointMax ] ]

\* the three gates of get_cipher, on the manager after cleanup
GenerationTooOld_NoGate(m, generation) == FALSE

GenerationTooOld(m, generation) == generation < m.oldestGeneration_

GenerationTooNew(m, generation) == generation > m.newestGeneration_ + MAX_GENERATION_GAP

MaxLifetimeGenerations(m, clockNow) ==
    LET ratchetLifetimeSec == (clockNow - m.ratchetCreation_) \div TicksPerSecond
        maxLifetimeFrames == MAX_FRAMES_PER_SECOND * ratchetLifetimeSec
    IN  maxLifetimeFrames \div SeqWrap

GenerationBeyondLifetime_NoGate(m, generation, clockNow) == FALSE

GenerationBeyondLifetime(m, generation, clockNow) ==
    generation > MaxLifetimeGenerations(m, clockNow)

\* returns [mgr, cipher, keyRequested]: cipher is None for nullptr
get_cipher(m, generation, clockNow) ==
    LET c == cleanup_expired_ciphers(m, clockNow)
    IN  IF GenerationTooOld(c, generation)
        THEN [mgr |-> c, cipher |-> None, keyRequested |-> FALSE]
        ELSE IF GenerationTooNew(c, generation)
        THEN [mgr |-> c, cipher |-> None, keyRequested |-> FALSE]
        ELSE IF GenerationBeyondLifetime(c, generation, clockNow)
        THEN [mgr |-> c, cipher |-> None, keyRequested |-> FALSE]
        ELSE IF generation \in DOMAIN c.cryptors_
        THEN [mgr |-> c, cipher |-> Some(c.cryptors_[generation].key),
              keyRequested |-> FALSE]
        ELSE LET made == make_expiring_cipher(c, generation, clockNow)
             IN  [mgr |-> [c EXCEPT !.keyRatchet_ = made.ratchet,
                                    !.cryptors_ = (generation :> made.entry) @@ @],
                  cipher |-> Some(made.entry.key),
                  keyRequested |-> TRUE]

\* lines 115-142: the replay window
PopOlder_KeepAll(missing, oldestMissingNonce) == missing

RECURSIVE PopOlder(_, _)
PopOlder(missing, oldestMissingNonce) ==
    IF missing # <<>> /\ BigLess(Head(missing), oldestMissingNonce)
    THEN PopOlder(Tail(missing), oldestMissingNonce)
    ELSE missing

EraseFirst(s, v) ==
    IF InSeq(s, v)
    THEN LET i == CHOOSE k \in 1..Len(s) : s[k] = v /\ \A j \in 1..(k - 1) : s[j] # v
         IN  SubSeq(s, 1, i - 1) \o SubSeq(s, i + 1, Len(s))
    ELSE s

\* the for loop of line 130: every big_nonce from first up to, not including, last
RECURSIVE MissingRange(_, _)
MissingRange(first, last) ==
    IF BigLess(first, last) THEN <<first>> \o MissingRange(BigSucc(first), last) ELSE <<>>

TrackNonce(m, bigNonce) ==
    IF m.newestProcessedNonce_ = None
    THEN [m EXCEPT !.newestProcessedNonce_ = Some(bigNonce)]
    ELSE IF BigLess(m.newestProcessedNonce_[1], bigNonce)
    THEN LET oldestMissingNonce == IF BigLess(Nonce(0, MAX_MISSING_NONCES), bigNonce)
                                   THEN BigMinus(bigNonce, MAX_MISSING_NONCES)
                                   ELSE Nonce(0, 0)
             kept == PopOlder(m.missingNonces_, oldestMissingNonce)
             missingRangeStart ==
                 BigMax(oldestMissingNonce, BigSucc(m.newestProcessedNonce_[1]))
             added == MissingRange(missingRangeStart, bigNonce)
         IN  [m EXCEPT !.missingNonces_ = kept \o added,
                       !.newestProcessedNonce_ = Some(bigNonce)]
    ELSE [m EXCEPT !.missingNonces_ = EraseFirst(@, bigNonce)]

\* lines 144-157: the generation advance
AdvanceGeneration_AnyGeneration(m, generation, clockNow) ==
    IF generation \notin DOMAIN m.cryptors_
    THEN m
    ELSE [m EXCEPT !.newestGeneration_ = generation]

AdvanceGeneration(m, generation, clockNow) ==
    IF generation <= m.newestGeneration_ \/ generation \notin DOMAIN m.cryptors_
    THEN m
    ELSE LET expiryTime == clockNow + CIPHER_EXPIRY
         IN  [m EXCEPT !.newestGeneration_ = generation,
                       !.cryptors_ = [g \in DOMAIN @ |->
                           IF g < generation
                           THEN [@[g] EXCEPT !.expiry = Min(@, expiryTime)]
                           ELSE @[g]]]

report_cipher_success(m, generation, nonce, clockNow) ==
    AdvanceGeneration(TrackNonce(m, compute_wrapped_big_nonce(generation, nonce)),
                      generation, clockNow)

\* ------------------------------------------------------------------------
\* Frame layout: LEB128, the supplemental block, the symbolic AEAD
\* ------------------------------------------------------------------------
kAesGcm128TruncatedTagBytes == 8
\* tag + supplemental size byte + the two marker bytes
kSupplementalBytes == kAesGcm128TruncatedTagBytes + 1 + 2
kMarkerBytes == <<250, 250>>
kOpusSilencePacket == <<248, 255, 254>>
MAX_CIPHERTEXT_VALIDATION_RETRIES_OneMore == 10 + 1

MAX_CIPHERTEXT_VALIDATION_RETRIES == 10

\* ++ on a 32-bit truncated_sync_nonce
NonceSucc(n) ==
    IF n.seq = SeqWrap - 1 THEN Nonce((n.gen + 1) % GenBitsWrap, 0)
    ELSE Nonce(n.gen, n.seq + 1)

\* the five 7-bit groups of a 32-bit value, least significant first
Leb128Groups(n) ==
    << n.seq % 128, (n.seq \div 128) % 128, (n.seq \div 16384) % 128,
       (n.seq \div 2097152) + (n.gen % 16) * 8, n.gen \div 16 >>

Leb128Size(n) ==
    LET g == Leb128Groups(n)
        used == {i \in 1..5 : g[i] # 0}
    IN  IF used = {} THEN 1 ELSE CHOOSE i \in used : \A j \in used : j <= i

WriteLeb128(n) ==
    LET g == Leb128Groups(n)
        size == Leb128Size(n)
    IN  [i \in 1..size |-> g[i] + (IF i < size THEN 128 ELSE 0)]

\* reads one varint from the front of bytes: size 0 when none ends within 5 bytes
ReadLeb128(bytes) ==
    LET ends == {i \in 1..Min(Len(bytes), 5) : bytes[i] < 128}
    IN  IF ends = {} THEN [size |-> 0, value |-> Nonce(0, 0)]
        ELSE LET size == CHOOSE i \in ends : \A j \in ends : i <= j
                 g == [i \in 1..5 |-> IF i <= size THEN bytes[i] % 128 ELSE 0]
             IN  [size |-> size,
                  value |-> Nonce((g[4] \div 8) + (g[5] % 16) * 16,
                                  g[1] + g[2] * 128 + g[3] * 16384 + (g[4] % 8) * 2097152)]

\* codec-defined split: the codecs with an unencrypted header keep their first
\* byte in the clear, Unknown encrypts everything
ProcessFrame(frame, codec) ==
    LET header == IF codec = "H264" /\ Len(frame) > 0 THEN 1 ELSE 0
    IN  [unencryptedBytes |-> SubSeq(frame, 1, header),
         encryptedBytes |-> SubSeq(frame, header + 1, Len(frame)),
         unencryptedRanges |-> IF header = 0 THEN <<>> ELSE <<0, header>>]

ReconstructFrame_HeaderLast(unencryptedBytes, bytes) == bytes \o unencryptedBytes

\* interleaves the unencrypted bytes back with the processed bytes
ReconstructFrame(unencryptedBytes, bytes) == unencryptedBytes \o bytes

\* AES-128-GCM, symbolically: ciphertext and tag can only be opened with the key,
\* nonce and additional data they were made with
AeadEncrypt(key, nonce, additionalData, plaintext) ==
    [key |-> key, nonce |-> nonce, aad |-> additionalData, plaintext |-> plaintext]

AeadDecrypt(key, nonce, additionalData, ciphertext) ==
    IF ciphertext.key = key /\ ciphertext.nonce = nonce /\ ciphertext.aad = additionalData
    THEN Some(ciphertext.plaintext)
    ELSE None

\* a frame that is not DAVE-encrypted
RawFrame(bytes) == [unencrypted |-> bytes, ciphertext |-> None, supplemental |-> <<>>]

\* the frame Encrypt emits: interleaved frame, tag (part of ciphertext here),
\* nonce, ranges ((offset, size) pairs, each a one-byte varint), supplemental
\* size, marker
WireFrame(unencryptedBytes, ciphertext, truncatedNonce, unencryptedRanges) ==
    LET ranges == unencryptedRanges
        nonceBytes == WriteLeb128(truncatedNonce)
    IN  [unencrypted |-> unencryptedBytes,
         ciphertext |-> Some(ciphertext),
         supplemental |-> nonceBytes \o ranges
                          \o <<kSupplementalBytes + Len(nonceBytes) + Len(ranges)>>
                          \o kMarkerBytes]

FrameBytes(f) ==
    IF f.ciphertext = None THEN Len(f.unencrypted)
    ELSE Len(f.unencrypted) + Len(f.ciphertext[1].plaintext)
         + kAesGcm128TruncatedTagBytes + Len(f.supplemental)

\* InboundFrameProcessor::ParseFrame: marker, supplemental size, nonce, ranges
ParseFrame(f) ==
    LET s == f.supplemental
        n == Len(s)
        notEncrypted == [isEncrypted |-> FALSE, truncatedNonce |-> Nonce(0, 0),
                         authenticatedData |-> <<>>]
    IN  IF f.ciphertext = None \/ n < 3 \/ SubSeq(s, n - 1, n) # kMarkerBytes
        THEN notEncrypted
        ELSE LET suppSize == s[n - 2]
                 read == ReadLeb128(SubSeq(s, 1, n - 3))
             IN  IF suppSize # kAesGcm128TruncatedTagBytes + n \/ read.size = 0
                 THEN notEncrypted
                 ELSE [isEncrypted |-> TRUE, truncatedNonce |-> read.value,
                       authenticatedData |-> f.unencrypted]

\* ------------------------------------------------------------------------
\* Encryptor (encryptor.cpp)
\* ------------------------------------------------------------------------
MediaTypes == {"audio", "video"}

MaxSupportedProtocolVersion == 1

NewEncryptor == [keyRatchet_ |-> None, cryptor_ |-> None, currentKeyGeneration_ |-> 0,
                 truncatedNonce_ |-> Nonce(0, 0), passthroughMode_ |-> FALSE,
                 currentProtocolVersion_ |-> MaxSupportedProtocolVersion,
                 stats_ |-> [m \in MediaTypes |->
                               [encryptAttempts |-> 0, encryptMaxAttempts |-> 0,
                                encryptSuccessCount |-> 0, encryptFailureCount |-> 0,
                                passthroughCount |-> 0]]]

SetKeyRatchet_KeepCryptor(e, keyRatchet) ==
    [e EXCEPT !.keyRatchet_ = keyRatchet,
              !.currentKeyGeneration_ = 0, !.truncatedNonce_ = Nonce(0, 0)]

\* lines 19-26
SetKeyRatchet(e, keyRatchet) ==
    [e EXCEPT !.keyRatchet_ = keyRatchet, !.cryptor_ = None,
              !.currentKeyGeneration_ = 0, !.truncatedNonce_ = Nonce(0, 0)]

\* lines 28-32 and UpdateCurrentProtocolVersion, lines 278-288
SetPassthroughMode(e, passthroughMode) ==
    [e EXCEPT !.passthroughMode_ = passthroughMode,
              !.currentProtocolVersion_ =
                  IF passthroughMode THEN 0 ELSE MaxSupportedProtocolVersion]

\* lines 258-276, one critical section of keyGenMutex_
GetNextCryptorAndNonce(e) ==
    IF e.keyRatchet_ = None
    THEN [enc |-> e, cryptor |-> None, truncatedNonce |-> Nonce(0, 0)]
    ELSE LET truncatedNonce == NonceSucc(e.truncatedNonce_)
             generation == compute_wrapped_generation(e.currentKeyGeneration_,
                                                      truncatedNonce.gen)
             ratchet == e.keyRatchet_[1]
             next == IF generation # e.currentKeyGeneration_ \/ e.cryptor_ = None
                     THEN [e EXCEPT !.truncatedNonce_ = truncatedNonce,
                                    !.currentKeyGeneration_ = generation,
                                    !.keyRatchet_ = Some(GetKey(ratchet, generation)),
                                    !.cryptor_ = Some(<<ratchet.id, generation>>)]
                     ELSE [e EXCEPT !.truncatedNonce_ = truncatedNonce]
         IN  [enc |-> next, cryptor |-> next.cryptor_, truncatedNonce |-> truncatedNonce]

\* lines 93-171: the attempts of one Encrypt call; the codec check rejects the
\* output of the first `rejected` attempts
RECURSIVE EncryptAttempts(_, _, _, _)
EncryptAttempts(e, processed, attempt, rejected) ==
    LET r == GetNextCryptorAndNonce(e)
    IN  IF r.cryptor = None
        THEN [enc |-> r.enc, result |-> "EncryptionFailure", frame |-> None,
              attempts |-> attempt - 1]
        ELSE IF attempt > rejected
        THEN [enc |-> r.enc, result |-> "Success",
              frame |-> Some(WireFrame(processed.unencryptedBytes,
                                       AeadEncrypt(r.cryptor[1], r.truncatedNonce,
                                                   processed.unencryptedBytes,
                                                   processed.encryptedBytes),
                                       r.truncatedNonce, processed.unencryptedRanges)),
              attempts |-> attempt]
        ELSE IF attempt >= MAX_CIPHERTEXT_VALIDATION_RETRIES
        THEN [enc |-> r.enc, result |-> "EncryptionFailure", frame |-> None,
              attempts |-> attempt]
        ELSE EncryptAttempts(r.enc, processed, attempt + 1, rejected)

Encrypt_RatchetBeforePassthrough(e, mediaType, codec, frame, rejected) ==
    IF mediaType \notin MediaTypes
    THEN [enc |-> e, result |-> "0", frame |-> None]
    ELSE IF e.keyRatchet_ = None
    THEN [enc |-> [e EXCEPT !.stats_[mediaType].encryptFailureCount = @ + 1],
          result |-> "EncryptionFailure", frame |-> None]
    ELSE LET r == GetNextCryptorAndNonce(e)
         IN  [enc |-> [r.enc EXCEPT !.stats_[mediaType].passthroughCount = @ + 1],
              result |-> "Success", frame |-> Some(RawFrame(frame))]

\* lines 34-204; result "0" is the bare return of the media type check
Encrypt(e, mediaType, codec, frame, rejected) ==
    IF mediaType \notin MediaTypes
    THEN [enc |-> e, result |-> "0", frame |-> None]
    ELSE IF e.passthroughMode_
    THEN [enc |-> [e EXCEPT !.stats_[mediaType].passthroughCount = @ + 1],
          result |-> "Success", frame |-> Some(RawFrame(frame))]
    ELSE IF e.keyRatchet_ = None
    THEN [enc |-> [e EXCEPT !.stats_[mediaType].encryptFailureCount = @ + 1],
          result |-> "EncryptionFailure", frame |-> None]
    ELSE LET r == EncryptAttempts(e, ProcessFrame(frame, codec), 1, rejected)
             counted == [r.enc EXCEPT
                 !.stats_[mediaType].encryptAttempts = @ + r.attempts,
                 !.stats_[mediaType].encryptMaxAttempts =
                     IF @ < r.attempts THEN r.attempts ELSE @]
         IN  [enc |-> IF r.result = "Success"
                      THEN [counted EXCEPT !.stats_[mediaType].encryptSuccessCount = @ + 1]
                      ELSE [counted EXCEPT !.stats_[mediaType].encryptFailureCount = @ + 1],
              result |-> r.result, frame |-> r.frame]

\* ------------------------------------------------------------------------
\* Decryptor (decryptor.cpp)
\* ------------------------------------------------------------------------
UpdateExpiry_Keep(m, expiry) == m

UpdateExpiry(m, expiry) == [m EXCEPT !.ratchetExpiry_ = Min(@, expiry)]

IsExpired(m, clockNow) == clockNow > m.ratchetExpiry_

\* lines 210-216
UpdateCryptorManagerExpiry(managers, expiry, clockNow) ==
    [i \in 1..Len(managers) |-> UpdateExpiry(managers[i], clockNow + expiry)]

\* lines 218-224
RECURSIVE CleanupExpiredCryptorManagers(_, _)
CleanupExpiredCryptorManagers(managers, clockNow) ==
    IF managers # <<>> /\ IsExpired(Head(managers), clockNow)
    THEN CleanupExpiredCryptorManagers(Tail(managers), clockNow)
    ELSE managers

TransitionToKeyRatchet_EmplaceFront(managers, keyRatchet, transitionExpiry, clockNow) ==
    LET updated == UpdateCryptorManagerExpiry(managers, transitionExpiry, clockNow)
    IN  IF keyRatchet # None
        THEN <<NewManager(clockNow, keyRatchet[1])>> \o updated
        ELSE updated

\* lines 41-53
TransitionToKeyRatchet(managers, keyRatchet, transitionExpiry, clockNow) ==
    LET updated == UpdateCryptorManagerExpiry(managers, transitionExpiry, clockNow)
    IN  IF keyRatchet # None
        THEN Append(updated, NewManager(clockNow, keyRatchet[1]))
        ELSE updated

TransitionToPassthroughMode_Overwrite(until, passthroughMode, transitionExpiry, clockNow) ==
    IF passthroughMode THEN TimePointMax ELSE clockNow + transitionExpiry

\* lines 55-65
TransitionToPassthroughMode(until, passthroughMode, transitionExpiry, clockNow) ==
    IF passthroughMode THEN TimePointMax ELSE Min(until, clockNow + transitionExpiry)

DecryptImpl_ReportBeforeOpen(m, parsed, ciphertext, clockNow) ==
    LET truncatedNonce == parsed.truncatedNonce
        generation == compute_wrapped_generation(m.oldestGeneration_, truncatedNonce.gen)
        failed == [mgr |-> m, success |-> FALSE, plaintext |-> <<>>, attempts |-> 0]
    IN  IF ~can_process_nonce(m, generation, truncatedNonce)
        THEN failed
        ELSE LET got == get_cipher(m, generation, clockNow)
             IN  IF got.cipher = None
                 THEN [failed EXCEPT !.mgr = got.mgr]
                 ELSE LET opened == AeadDecrypt(got.cipher[1], truncatedNonce,
                                                parsed.authenticatedData, ciphertext)
                          reported == report_cipher_success(got.mgr, generation,
                                                            truncatedNonce, clockNow)
                      IN  IF opened = None
                          THEN [failed EXCEPT !.mgr = reported, !.attempts = 1]
                          ELSE [mgr |-> reported, success |-> TRUE,
                                plaintext |-> opened[1], attempts |-> 1]

\* lines 158-203
DecryptImpl(m, parsed, ciphertext, clockNow) ==
    LET truncatedNonce == parsed.truncatedNonce
        generation == compute_wrapped_generation(m.oldestGeneration_, truncatedNonce.gen)
        failed == [mgr |-> m, success |-> FALSE, plaintext |-> <<>>, attempts |-> 0]
    IN  IF ~can_process_nonce(m, generation, truncatedNonce)
        THEN failed
        ELSE LET got == get_cipher(m, generation, clockNow)
             IN  IF got.cipher = None
                 THEN [failed EXCEPT !.mgr = got.mgr]
                 ELSE LET opened == AeadDecrypt(got.cipher[1], truncatedNonce,
                                                parsed.authenticatedData, ciphertext)
                      IN  IF opened = None
                          THEN [failed EXCEPT !.mgr = got.mgr, !.attempts = 1]
                          ELSE [mgr |-> report_cipher_success(got.mgr, generation,
                                                              truncatedNonce, clockNow),
                                success |-> TRUE, plaintext |-> opened[1],
                                attempts |-> 1]

\* lines 110-117: managers i, i-1, .. 1 in turn, newest first, until one succeeds
RECURSIVE TryCryptorManagers(_, _, _, _, _)
TryCryptorManagers(managers, i, parsed, ciphertext, clockNow) ==
    IF i = 0
    THEN [managers |-> managers, success |-> FALSE, plaintext |-> <<>>,
          attempts |-> 0, index |-> 0]
    ELSE LET r == DecryptImpl(managers[i], parsed, ciphertext, clockNow)
             tried == [managers EXCEPT ![i] = r.mgr]
         IN  IF r.success
             THEN [managers |-> tried, success |-> TRUE, plaintext |-> r.plaintext,
                   attempts |-> r.attempts, index |-> i]
             ELSE LET rest == TryCryptorManagers(tried, i - 1, parsed, ciphertext,
                                                 clockNow)
                  IN  [rest EXCEPT !.attempts = @ + r.attempts]

\* ------------------------------------------------------------------------
\* State
\* ------------------------------------------------------------------------
VARIABLES
    now,                    \* clock_.now()
    ticks,                  \* clock advances so far
    cryptorManagers_,       \* decryptor::cryptorManagers_, oldest at the head
    allowPassThroughUntil_, \* decryptor::allowPassThroughUntil_
    stats_,                 \* decryptor::stats_
    encryptor,              \* the sending Encryptor
    wire,                   \* what Encrypt emitted, in order, with the input of each call
    epoch,                  \* key ratchets handed out so far, per side
    accepted,               \* history: the frames report_cipher_success was called for
    ret,                    \* the last call and what it returned
    threads,                \* the Encrypt call each media thread is in
    issued,                 \* history: what GetNextCryptorAndNonce handed out, in order
    secret_key,             \* discord_voice_client::secret_key
    has_secret_key,
    dave_version,
    sequence,
    timestamp,
    packet_nonce,
    sending,
    mls_state,
    sent,                   \* history: the packets send_audio_opus built, in order
    terminating,
    outbuf,                 \* queued outbound packets, with their durations
    track_meta,
    tracks,
    timescale,
    message_queue,          \* websocket messages waiting for one_second_timer
    written,                \* history: the websocket frames written, in order
    parking_lot,            \* voice_courier_shared_state.parked_voice_payloads of one speaker
    delivered,              \* the payloads the last courier iteration handed over, in order
    courier,                \* the voice courier thread and voice_courier_shared_state.terminating
    opus,                   \* history: the speaker's decoder controls queued and applied, and
                            \* the packet-loss concealment calls of the last delivery with
                            \* the min_seq its loop started from
    runner,                 \* thread_run: its position, locals, and the history of its loop
    state,                  \* websocket_client::state
    heartbeat_interval,     \* milliseconds; 0 until HELLO names it
    last_heartbeat,         \* time_t of the last heartbeat queued
    receive_sequence,
    modes,
    connect_time,
    paused,
    access,                 \* history: the accesses made to outbuf, tracks and track_meta,
                            \* each with the method making it and the mutexes it holds
    generations,            \* an Encryptor's currentKeyGeneration_ and truncatedNonce_ at
                            \* their 32-bit width, with the generation before the last step
    wrapped,                \* the last compute_wrapped_generation call at 32-bit width
    udp_out,                \* history: the packets write_ready passed to udp_send
    marker_events,          \* history: the track_meta each on_voice_track_marker event
                            \* carried, with the metadata its marker was queued with
    inbound,                \* the last read_ready call: the packet and what was computed
    fault,                  \* the null pointer handle_frame dereferenced, if it did
    ssrc_map,
    decryptors,             \* mls_state->decryptors: the cipher managers of the Decryptor
                            \* of each user that has one
    dave_mls_user_list,
    raw_audio               \* history: the send_audio_raw calls, each with its length,
                            \* whether it threw, and the pieces of the input it handed
                            \* to encode, in order

clockVars == <<now, ticks>>
decryptorVars == <<cryptorManagers_, allowPassThroughUntil_, stats_, accepted>>
senderVars == <<encryptor, wire>>
threadVars == <<threads, issued>>
voiceVars == <<secret_key, has_secret_key, dave_version, sequence, timestamp, packet_nonce,
               sending, mls_state, sent>>
\* the variables the DAVE media plane does not touch
audioVars == <<terminating, outbuf, track_meta, tracks, timescale>>
socketVars == <<message_queue, written>>
courierVars == <<parking_lot, delivered, courier, opus>>
sessionVars == <<state, heartbeat_interval, last_heartbeat, receive_sequence, modes,
                 connect_time>>
runVars == <<runner, sessionVars>>
streamVars == <<paused, access>>
genVars == <<generations, wrapped>>
trackVars == <<udp_out, marker_events>>
daveVars == <<decryptors, dave_mls_user_list>>
peerVars == <<inbound, fault, ssrc_map, daveVars>>
auxVars == <<trackVars, peerVars, raw_audio>>
otherVars == <<threadVars, voiceVars, audioVars, socketVars, courierVars, runVars,
               streamVars, genVars, auxVars>>
vars == <<now, ticks, cryptorManagers_, allowPassThroughUntil_, stats_, encryptor, wire,
          epoch, accepted, ret, threads, issued, secret_key, has_secret_key, dave_version,
          sequence, timestamp, packet_nonce, sending, mls_state, sent, terminating, outbuf,
          track_meta, tracks, timescale, message_queue, written, parking_lot, delivered,
          courier, opus, runner, state, heartbeat_interval, last_heartbeat, receive_sequence,
          modes, connect_time, paused, access, generations, wrapped, udp_out,
          marker_events, inbound, fault, ssrc_map, decryptors, dave_mls_user_list,
          raw_audio>>

\* clock advances: CIPHER_EXPIRY, and the age at which a ratchet is allowed one
\* more generation
TickSteps == {CIPHER_EXPIRY, GenerationSeconds * TicksPerSecond}

NoCall == [op |-> "none", generation |-> 0, nonce |-> Nonce(0, 0),
           cipher |-> None, keyRequested |-> FALSE, result |-> "", bytesWritten |-> 0,
           out |-> <<>>]

\* the parts of the state a specification does not use
IdleDecryptor ==
    /\ allowPassThroughUntil_ = 0 - TimePointMax
    /\ stats_ = [m \in MediaTypes |->
                    [passthroughCount |-> 0, decryptSuccessCount |-> 0,
                     decryptFailureCount |-> 0, decryptAttempts |-> 0]]
    /\ accepted = {}

IdleSender ==
    /\ encryptor = NewEncryptor
    /\ wire = <<>>
    /\ epoch = [sender |-> 0, receiver |-> 0]

NoEncryptCall == [pc |-> "idle", attempt |-> 0, rejected |-> 0, cryptor |-> None,
                  truncatedNonce |-> Nonce(0, 0), ratchet |-> 0]

IdleThreads ==
    /\ threads = [t \in MediaTypes |-> NoEncryptCall]
    /\ issued = <<>>

dave_version_none == 0
dave_version_1 == 1

\* no UDP packet was read yet
NoReadReady == [op |-> "none"]
\* handle_frame dereferenced no null pointer
NoFault == [frame |-> "none", pointer |-> "none"]

\* discord_voice_client as constructed, lines 362-374; secret_key 0 is the key
\* before any session description
NewVoiceClient(enable_dave) ==
    /\ secret_key = 0
    /\ has_secret_key = FALSE
    /\ dave_version = IF enable_dave THEN dave_version_1 ELSE dave_version_none
    /\ sequence = 0
    /\ timestamp = 0
    /\ packet_nonce = 1
    /\ sending = FALSE
    /\ mls_state = None
    /\ sent = <<>>
    /\ terminating = FALSE
    /\ outbuf = <<>>
    /\ track_meta = <<>>
    /\ tracks = 0
    /\ timescale = 1000000
    /\ message_queue = <<>>
    /\ written = <<>>
    /\ parking_lot = [range |-> [min_seq |-> 0, min_timestamp |-> 0, max_seq |-> 0,
                                 max_timestamp |-> 0],
                      decoder |-> FALSE, parked_payloads |-> {},
                      pending_decoder_ctls |-> <<>>]
    /\ delivered = <<>>
    /\ courier = [pc |-> "none", flush_data |-> None, terminating |-> FALSE,
                  signalled |-> FALSE]
    /\ opus = [queued |-> 0, ctls |-> <<>>, plc |-> 0, min_seq |-> 0]
    /\ runner = [pc |-> "read_loop", times_looped |-> 0, last_loop_time |-> 0,
                 error |-> FALSE, returns |-> <<>>, connects |-> 0, cleanup |-> "none"]
    /\ state = "HTTP_HEADERS"
    /\ heartbeat_interval = 0
    /\ last_heartbeat = now \div TicksPerSecond
    /\ receive_sequence = 0 - 1
    /\ modes = <<>>
    /\ connect_time = 0
    /\ paused = FALSE
    /\ access = {}
    /\ udp_out = {}
    /\ marker_events = {}
    /\ inbound = NoReadReady
    /\ fault = NoFault
    /\ ssrc_map = <<>>
    /\ decryptors = <<>>
    /\ dave_mls_user_list = {}
    /\ raw_audio = <<>>

IdleVoice == NewVoiceClient(FALSE)

\* a KeyGeneration (uint32_t) as its two bit fields: hi = g >> 24 (8 bits),
\* lo = g & (GENERATION_WRAP - 1)
KeyGen(hi, lo) == [hi |-> hi, lo |-> lo]

NoWrapCall == [op |-> "none", oldest |-> KeyGen(0, 0), generation |-> 0,
               result |-> KeyGen(0, 0)]

\* an Encryptor as constructed, and no compute_wrapped_generation call
IdleGenerations ==
    /\ generations = [currentKeyGeneration_ |-> KeyGen(0, 0),
                      truncatedNonce_ |-> Nonce(0, 0), previous |-> KeyGen(0, 0),
                      steps |-> 0]
    /\ wrapped = NoWrapCall

\* ------------------------------------------------------------------------
\* SpecMgr: one aead_cipher_manager driven through its public methods
\* ------------------------------------------------------------------------
\* generations get_cipher and report_cipher_success are called with
CallGenerations == {0, 1, 2, MAX_GENERATION_GAP + 1}
\* low 24 bits of the nonces report_cipher_success is called with
CallSeqs == {1, MAX_MISSING_NONCES + 10, MAX_MISSING_NONCES + 20}

InitMgr ==
    /\ IdleGenerations
    /\ now = 0
    /\ ticks = 0
    /\ cryptorManagers_ = <<NewManager(0, 1)>>
    /\ ret = NoCall
    /\ IdleDecryptor
    /\ IdleSender
    /\ IdleThreads
    /\ IdleVoice

Tick(d) ==
    /\ ticks < MaxTicks
    /\ now' = now + d
    /\ ticks' = ticks + 1
    /\ UNCHANGED <<decryptorVars, senderVars, epoch, ret, otherVars>>

MgrGetCipher ==
    \E generation \in CallGenerations :
        LET r == get_cipher(cryptorManagers_[1], generation, now)
        IN  /\ cryptorManagers_' = <<r.mgr>>
            /\ ret' = [NoCall EXCEPT !.op = "get_cipher", !.generation = generation,
                                     !.cipher = r.cipher,
                                     !.keyRequested = r.keyRequested]
            /\ UNCHANGED <<clockVars, allowPassThroughUntil_, stats_, accepted, senderVars,
                           epoch, otherVars>>

MgrReportCipherSuccess ==
    \E generation \in CallGenerations \ {MAX_GENERATION_GAP + 1}, seq \in CallSeqs :
        LET nonce == Nonce(generation % GenBitsWrap, seq)
        IN  /\ cryptorManagers_' =
                  <<report_cipher_success(cryptorManagers_[1], generation, nonce, now)>>
            /\ ret' = [NoCall EXCEPT !.op = "report_cipher_success",
                                     !.generation = generation, !.nonce = nonce]
            /\ UNCHANGED <<clockVars, allowPassThroughUntil_, stats_, accepted, senderVars,
                           epoch, otherVars>>

NextMgr == (\E d \in TickSteps : Tick(d)) \/ MgrGetCipher \/ MgrReportCipherSuccess

SpecMgr == InitMgr /\ [][NextMgr]_vars

\* ------------------------------------------------------------------------
\* Properties of the cipher manager (SpecMgr)
\* ------------------------------------------------------------------------
Mgr == cryptorManagers_[1]

\* C6: whenever get_cipher(g) returns a cipher, g >= oldest_generation,
\* g <= newest_generation + MAX_GENERATION_GAP and
\* g <= (MAX_FRAMES_PER_SECOND * ratchet age in whole seconds) >> 24 hold at
\* the moment of return; if a gate fails it returns null and no key is
\* requested from the ratchet.
C6_GetCipherGates ==
    ret.op = "get_cipher" =>
        LET g == ret.generation
            ageSec == (now - Mgr.ratchetCreation_) \div TicksPerSecond
            gatesPass == /\ g >= Mgr.oldestGeneration_
                         /\ g <= Mgr.newestGeneration_ + MAX_GENERATION_GAP
                         /\ g <= (MAX_FRAMES_PER_SECOND * ageSec) \div (2 ^ 24)
        IN  /\ ret.cipher # None => gatesPass
            /\ ~gatesPass => ret.cipher = None /\ ~ret.keyRequested

\* a cipher of a generation above 0 was returned after the oldest generation moved on
C6_Witness ==
    /\ ret.op = "get_cipher"
    /\ ret.cipher # None
    /\ ret.generation > 0
    /\ Mgr.oldestGeneration_ > 0

\* C7: once DeleteKey(g) was called on the ratchet, GetKey(g') is never
\* called for a g' <= g; every generation in the cipher map is
\* >= oldest_generation, and oldest_generation <= newest_generation.
C7_ForwardSecrecy ==
    /\ Mgr.keyRatchet_.refused = {}
    /\ \A g \in DOMAIN Mgr.cryptors_ : g >= Mgr.oldestGeneration_
    /\ Mgr.oldestGeneration_ <= Mgr.newestGeneration_
    /\ \A d \in Mgr.keyRatchet_.deleted : d < Mgr.oldestGeneration_

\* a key was requested from a ratchet that has deleted keys
C7_Witness ==
    /\ ret.op = "get_cipher"
    /\ ret.keyRequested
    /\ Mgr.keyRatchet_.deleted # {}

\* C8: newest_generation never decreases, and neither does
\* newest_processed_nonce once it is set.
C8_NewestMonotone ==
    [][ /\ Mgr'.newestGeneration_ >= Mgr.newestGeneration_
        /\ Mgr.newestProcessedNonce_ # None =>
              /\ Mgr'.newestProcessedNonce_ # None
              /\ ~BigLess(Mgr'.newestProcessedNonce_[1], Mgr.newestProcessedNonce_[1]) ]_vars

\* success was reported for a generation below the newest one, whose cipher is cached
C8_Witness ==
    /\ ret.op = "report_cipher_success"
    /\ ret.generation < Mgr.newestGeneration_
    /\ ret.generation \in DOMAIN Mgr.cryptors_
    /\ BigLess(Nonce(ret.generation, ret.nonce.seq), Mgr.newestProcessedNonce_[1])

\* C9: missing_nonces holds at most MAX_MISSING_NONCES entries, all distinct
\* (in increasing order), all strictly below newest_processed_nonce and none
\* older than newest_processed_nonce - MAX_MISSING_NONCES; the entries an
\* advance drops are older than every entry it keeps.
MissingBounded(m) ==
    LET q == m.missingNonces_
    IN  /\ Len(q) <= MAX_MISSING_NONCES
        /\ \A i \in 1..(Len(q) - 1) : BigLess(q[i], q[i + 1])
        /\ q # <<>> =>
              /\ m.newestProcessedNonce_ # None
              /\ \A i \in 1..Len(q) :
                    /\ BigLess(q[i], m.newestProcessedNonce_[1])
                    /\ ~BigLess(q[i], BigMinus(m.newestProcessedNonce_[1],
                                               MAX_MISSING_NONCES))

OldestDropped(m, n) ==
    (m.newestProcessedNonce_ # None /\ n.newestProcessedNonce_ # m.newestProcessedNonce_) =>
        LET kept == {n.missingNonces_[j] : j \in 1..Len(n.missingNonces_)}
            dropped == {m.missingNonces_[i] : i \in 1..Len(m.missingNonces_)} \ kept
        IN  \A d \in dropped : \A k \in kept : BigLess(d, k)

C9_MissingNoncesBounded ==
    [][MissingBounded(Mgr') /\ OldestDropped(Mgr, Mgr')]_vars

\* the window is full after a jump of more than MAX_MISSING_NONCES
C9_Witness ==
    /\ Len(Mgr.missingNonces_) = MAX_MISSING_NONCES
    /\ Mgr.missingNonces_[1] = BigMinus(Mgr.newestProcessedNonce_[1], MAX_MISSING_NONCES)
    /\ BigLess(Nonce(0, 1), Mgr.missingNonces_[1])

\* report_cipher_success moved newest_generation up in this step
Advances == MgrReportCipherSuccess /\ Mgr'.newestGeneration_ > Mgr.newestGeneration_

\* every cached cipher of a generation below the newest expires within CIPHER_EXPIRY
OlderClamped(m) ==
    \A g \in DOMAIN m.cryptors_ :
        g < m.newestGeneration_ => m.cryptors_[g].expiry <= now + CIPHER_EXPIRY

\* no expired cipher is cached, oldest_generation is the oldest generation
\* with a cipher (the newest generation when none is older), and the keys of
\* all generations below it are deleted
Swept(m) ==
    /\ \A g \in DOMAIN m.cryptors_ : ~(m.cryptors_[g].expiry < now')
    /\ m.oldestGeneration_ = m.newestGeneration_ \/ m.oldestGeneration_ \in DOMAIN m.cryptors_
    /\ \A k \in 0..(m.oldestGeneration_ - 1) : k \in m.keyRatchet_.deleted

\* C12 as stated: the advance of newest_generation to g at time t clamps the
\* expiry of every cached cipher below g to t + CIPHER_EXPIRY and deletes the
\* ratchet keys of the vacated oldest generations; once more than
\* CIPHER_EXPIRY has gone by the older ciphers are gone and oldest_generation
\* has caught up.
C12_SweptOnAdvance ==
    [][/\ Advances => OlderClamped(Mgr') /\ Swept(Mgr')
       /\ (Tick(GenerationSeconds * TicksPerSecond) /\ Mgr.newestGeneration_ > 0)
              => Swept(Mgr')]_vars

\* C12: the advance of newest_generation to g at time t clamps the expiry of
\* every cached cipher below g to t + CIPHER_EXPIRY, without deleting a key or
\* moving oldest_generation; every get_cipher call removes the ciphers whose
\* expiry has passed, deletes the ratchet keys of the vacated oldest
\* generations and leaves oldest_generation at the oldest generation that
\* still has a cipher (g when none is in between), so the older ciphers are
\* gone after the first get_cipher later than t + CIPHER_EXPIRY.
C12_GenerationAdvance ==
    [][/\ Advances
          => /\ OlderClamped(Mgr')
             /\ Mgr'.keyRatchet_ = Mgr.keyRatchet_
             /\ Mgr'.oldestGeneration_ = Mgr.oldestGeneration_
       /\ MgrGetCipher => Swept(Mgr')]_vars

\* two advances later the ciphers of generations 0 and 1 are gone, their keys
\* deleted, and oldest_generation has caught up with generation 2
C12_Witness ==
    /\ ret.op = "get_cipher"
    /\ Mgr.newestGeneration_ = 2 /\ Mgr.oldestGeneration_ = 2
    /\ Mgr.keyRatchet_.deleted = {0, 1}
    /\ DOMAIN Mgr.cryptors_ = {2}

\* ------------------------------------------------------------------------
\* SpecDec: an Encryptor whose frames reach a decryptor in any order, any
\* number of times, while both sides move to new key ratchets
\* ------------------------------------------------------------------------
MaxRatchets == 2
\* Encrypt and decrypt calls per behaviour
MaxCalls == 5

Payload == <<1, 2, 3, 4>>
\* what the sender encrypts: an audio ssrc without a codec assigned and a video
\* ssrc assigned H264, and how many attempts of the call the codec check rejects
EncryptInputs == {<<"audio", "Unknown", 0>>, <<"video", "H264", 1>>}

InitDec ==
    /\ IdleGenerations
    /\ now = 0
    /\ ticks = 0
    /\ cryptorManagers_ = <<>>
    /\ ret = NoCall
    /\ IdleDecryptor
    /\ IdleSender
    /\ IdleThreads
    /\ IdleVoice

EncryptCalls ==
    LET s == encryptor.stats_
    IN  s["audio"].encryptSuccessCount + s["audio"].encryptFailureCount
        + s["audio"].passthroughCount + s["video"].encryptSuccessCount
        + s["video"].encryptFailureCount + s["video"].passthroughCount

DecryptCalls ==
    stats_["audio"].decryptSuccessCount + stats_["audio"].decryptFailureCount
    + stats_["audio"].passthroughCount + stats_["video"].decryptSuccessCount
    + stats_["video"].decryptFailureCount + stats_["video"].passthroughCount

\* the sender installs the key ratchet of its next epoch
SenderSetKeyRatchet ==
    /\ epoch.sender < MaxRatchets
    /\ encryptor' = SetKeyRatchet(encryptor, Some(NewRatchet(epoch.sender + 1)))
    /\ epoch' = [epoch EXCEPT !.sender = @ + 1]
    /\ UNCHANGED <<clockVars, decryptorVars, wire, ret, otherVars>>

SenderEncrypt(mediaType, codec, rejected) ==
    /\ EncryptCalls + DecryptCalls < MaxCalls
    /\ LET r == Encrypt(encryptor, mediaType, codec, Payload, rejected)
       IN  /\ encryptor' = r.enc
           /\ wire' = IF r.frame = None THEN wire
                      ELSE Append(wire, [frame |-> r.frame[1], mediaType |-> mediaType,
                                         input |-> Payload,
                                         ratchet |-> IF encryptor.passthroughMode_ THEN 0
                                                     ELSE encryptor.keyRatchet_[1].id])
           /\ ret' = [NoCall EXCEPT !.op = "Encrypt", !.result = r.result,
                                    !.bytesWritten = IF r.frame = None THEN 0
                                                     ELSE FrameBytes(r.frame[1])]
    /\ UNCHANGED <<clockVars, decryptorVars, epoch, otherVars>>

DecTransitionToKeyRatchet(keyRatchet, transitionExpiry) ==
    /\ keyRatchet # None => epoch.receiver < MaxRatchets
    /\ cryptorManagers_' =
           TransitionToKeyRatchet(cryptorManagers_, keyRatchet, transitionExpiry, now)
    /\ epoch' = IF keyRatchet = None THEN epoch ELSE [epoch EXCEPT !.receiver = @ + 1]
    /\ UNCHANGED <<clockVars, allowPassThroughUntil_, stats_, accepted, senderVars, ret,
                   otherVars>>

DecTransitionToPassthroughMode(passthroughMode, transitionExpiry) ==
    /\ allowPassThroughUntil_' =
           TransitionToPassthroughMode(allowPassThroughUntil_, passthroughMode,
                                       transitionExpiry, now)
    /\ UNCHANGED <<clockVars, cryptorManagers_, stats_, accepted, senderVars, epoch, ret,
                   otherVars>>

\* decryptor::decrypt, lines 67-156
DecDecrypt(mediaType, f) ==
    /\ EncryptCalls + DecryptCalls < MaxCalls
    /\ IF mediaType \notin MediaTypes
       THEN /\ ret' = [NoCall EXCEPT !.op = "decrypt"]
            /\ UNCHANGED decryptorVars
       ELSE IF mediaType = "audio" /\ f = RawFrame(kOpusSilencePacket)
       THEN /\ ret' = [NoCall EXCEPT !.op = "decrypt", !.bytesWritten = FrameBytes(f),
                                     !.out = f.unencrypted]
            /\ UNCHANGED decryptorVars
       ELSE LET managers == CleanupExpiredCryptorManagers(cryptorManagers_, now)
                parsed == ParseFrame(f)
            IN  IF ~parsed.isEncrypted /\ allowPassThroughUntil_ > now
                THEN /\ cryptorManagers_' = managers
                     /\ stats_' = [stats_ EXCEPT ![mediaType].passthroughCount = @ + 1]
                     /\ ret' = [NoCall EXCEPT !.op = "decrypt",
                                              !.bytesWritten = FrameBytes(f),
                                              !.out = f.unencrypted]
                     /\ UNCHANGED <<allowPassThroughUntil_, accepted>>
                ELSE IF ~parsed.isEncrypted
                THEN /\ cryptorManagers_' = managers
                     /\ stats_' = [stats_ EXCEPT ![mediaType].decryptFailureCount = @ + 1]
                     /\ ret' = [NoCall EXCEPT !.op = "decrypt"]
                     /\ UNCHANGED <<allowPassThroughUntil_, accepted>>
                ELSE LET r == TryCryptorManagers(managers, Len(managers), parsed,
                                                 f.ciphertext[1], now)
                         frame == ReconstructFrame(parsed.authenticatedData, r.plaintext)
                     IN  /\ cryptorManagers_' = r.managers
                         /\ stats_' = [stats_ EXCEPT
                                ![mediaType].decryptAttempts = @ + r.attempts,
                                ![mediaType].decryptSuccessCount =
                                    IF r.success THEN @ + 1 ELSE @,
                                ![mediaType].decryptFailureCount =
                                    IF r.success THEN @ ELSE @ + 1]
                         /\ accepted' = IF r.success THEN accepted \cup {f} ELSE accepted
                         /\ ret' = [NoCall EXCEPT !.op = "decrypt",
                                        !.bytesWritten = IF r.success THEN Len(frame) ELSE 0,
                                        !.out = IF r.success THEN frame ELSE <<>>]
                         /\ UNCHANGED allowPassThroughUntil_
    /\ UNCHANGED <<clockVars, senderVars, epoch, otherVars>>

NextDec ==
    \/ SenderSetKeyRatchet
    \/ \E in \in EncryptInputs : SenderEncrypt(in[1], in[2], in[3])
    \/ DecTransitionToKeyRatchet(Some(epoch.receiver + 1), CIPHER_EXPIRY)
    \/ \E i \in 1..Len(wire) : DecDecrypt(wire[i].mediaType, wire[i].frame)

SpecDec == InitDec /\ [][NextDec]_vars

\* ------------------------------------------------------------------------
\* Properties of the decryptor fed by an Encryptor (SpecDec)
\* ------------------------------------------------------------------------
Sealed(f) == f.ciphertext[1]

\* the manager at the tail of the queue holds ratchet r
NewestHolds(r) ==
    cryptorManagers_ # <<>> /\ cryptorManagers_[Len(cryptorManagers_)].keyRatchet_.id = r

\* the checks DecryptImpl makes before it opens a frame, for the newest manager
Admitted(f) ==
    LET m == cryptorManagers_[Len(cryptorManagers_)]
        truncatedNonce == ParseFrame(f).truncatedNonce
        generation == compute_wrapped_generation(m.oldestGeneration_, truncatedNonce.gen)
    IN  /\ can_process_nonce(m, generation, truncatedNonce)
        /\ get_cipher(m, generation, now).cipher # None

NoncesReplayed ==
    \A f \in accepted : \A i \in 1..Len(cryptorManagers_) :
        cryptorManagers_[i].keyRatchet_.id = Sealed(f).key[1]
        => ~can_process_nonce(cryptorManagers_[i], Sealed(f).key[2],
                              ParseFrame(f).truncatedNonce)

\* C1: once report_cipher_success was called for a frame's (generation, nonce),
\* the manager that accepted it answers can_process_nonce with false in every
\* later state, and a decrypt of the same wire frame writes 0 bytes and adds one
\* to decryptFailureCount.
C1_ReplayRejected ==
    [][/\ NoncesReplayed'
       /\ \A i \in 1..Len(wire) :
              (wire[i].frame \in accepted /\ DecDecrypt(wire[i].mediaType, wire[i].frame))
              => /\ ret'.bytesWritten = 0
                 /\ stats_'[wire[i].mediaType].decryptFailureCount
                        = stats_[wire[i].mediaType].decryptFailureCount + 1]_vars

\* the last call was a decrypt that wrote nothing while every frame sent had
\* been accepted before: a replay
C1_Witness ==
    /\ ret.op = "decrypt" /\ ret.bytesWritten = 0
    /\ wire # <<>>
    /\ \A i \in 1..Len(wire) : wire[i].frame \in accepted

\* the frames sent under ratchet r carry the nonces 1, 2, .., n
ConsecutiveNonces(r) ==
    LET underR == {i \in 1..Len(wire) : wire[i].ratchet = r}
    IN  {ParseFrame(wire[i].frame).truncatedNonce : i \in underR}
            = {Nonce(0, k) : k \in 1..Cardinality(underR)}

\* C2: frames with the consecutive nonces 1..n, delivered in any order to the
\* manager made for their ratchet, are each accepted on first delivery, and
\* once all are delivered newest_processed_nonce is the largest of them and
\* missing_nonces is empty.
C2_OutOfOrderAccepted ==
    [][\A i \in 1..Len(wire) :
          LET f == wire[i].frame
              r == wire[i].ratchet
          IN  (/\ r # 0 /\ NewestHolds(r) /\ ConsecutiveNonces(r)
               /\ f \notin accepted
               /\ DecDecrypt(wire[i].mediaType, f))
              => /\ ret'.out = wire[i].input
                 /\ (\A j \in 1..Len(wire) : wire[j].ratchet = r => wire[j].frame \in accepted')
                    => LET m == cryptorManagers_'[Len(cryptorManagers_')]
                       IN  /\ m.missingNonces_ = <<>>
                           /\ \A j \in 1..Len(wire) : wire[j].ratchet = r =>
                                  ~BigLess(m.newestProcessedNonce_[1],
                                           ParseFrame(wire[j].frame).truncatedNonce)]_vars

TransitionExpiries == {CIPHER_EXPIRY, 2 * CIPHER_EXPIRY}

\* what decrypt is given: the Opus silence packet and a frame that was never
\* encrypted on the audio stream, and a frame with a media type that is neither
\* audio nor video
PlainArrivals == {<<"audio", RawFrame(kOpusSilencePacket)>>, <<"audio", RawFrame(Payload)>>,
                  <<"other", RawFrame(Payload)>>}

NextTrans ==
    \/ Tick(CIPHER_EXPIRY)
    \/ \E transitionExpiry \in TransitionExpiries,
          keyRatchet \in {None, Some(epoch.receiver + 1)} :
           DecTransitionToKeyRatchet(keyRatchet, transitionExpiry)
    \/ \E passthroughMode \in BOOLEAN, transitionExpiry \in TransitionExpiries :
           DecTransitionToPassthroughMode(passthroughMode, transitionExpiry)
    \/ \E a \in PlainArrivals : DecDecrypt(a[1], a[2])

SpecTrans == InitDec /\ [][NextTrans]_vars

\* ------------------------------------------------------------------------
\* Properties of the transitions (SpecTrans)
\* ------------------------------------------------------------------------
TransitionClamps ==
    \A transitionExpiry \in TransitionExpiries, keyRatchet \in {None, Some(epoch.receiver + 1)} :
        DecTransitionToKeyRatchet(keyRatchet, transitionExpiry)
        => /\ \A i \in 1..Len(cryptorManagers_) :
                  cryptorManagers_'[i].ratchetExpiry_ <= now + transitionExpiry
           /\ keyRatchet # None
              => /\ Len(cryptorManagers_') = Len(cryptorManagers_) + 1
                 /\ cryptorManagers_'[Len(cryptorManagers_')].ratchetExpiry_ = TimePointMax

NoneExpired(managers) == \A i \in 1..Len(managers) : ~IsExpired(managers[i], now)

\* C10 as stated: transition_to_key_ratchet(R, E) at time t leaves every earlier
\* manager with expiry <= t + E and appends R's manager with expiry infinity,
\* and any decrypt after t + E leaves none of the earlier managers in the queue.
C10_RemovedByAnyDecrypt ==
    [][/\ TransitionClamps
       /\ \A a \in PlainArrivals :
              DecDecrypt(a[1], a[2]) => NoneExpired(cryptorManagers_')]_vars

\* C10: transition_to_key_ratchet(R, E) at time t leaves every earlier manager
\* with expiry <= t + E and appends R's manager with expiry infinity; the
\* earlier managers are gone after the first decrypt after t + E that gets past
\* the media type check and is not given the Opus silence packet as audio.
C10_KeyRatchetTransition ==
    [][/\ TransitionClamps
       /\ \A a \in PlainArrivals :
              (/\ a[1] \in MediaTypes
               /\ ~(a[1] = "audio" /\ a[2] = RawFrame(kOpusSilencePacket))
               /\ DecDecrypt(a[1], a[2]))
              => NoneExpired(cryptorManagers_')]_vars

\* both ratchets were handed over and the decrypt just made removed the first
\* one's manager
C10_Witness ==
    /\ epoch.receiver = 2 /\ Len(cryptorManagers_) = 1
    /\ cryptorManagers_[1].keyRatchet_.id = 2
    /\ ret.op = "decrypt" /\ NoneExpired(cryptorManagers_)

\* decrypt of the unencrypted frame a[2] passes it through while the clock is
\* before allowPassThroughUntil_ and fails it from then on
WindowDecides(a) ==
    DecDecrypt(a[1], a[2])
    => IF now < allowPassThroughUntil_
       THEN /\ ret'.bytesWritten = Len(a[2].unencrypted) /\ ret'.out = a[2].unencrypted
            /\ stats_'[a[1]].passthroughCount = stats_[a[1]].passthroughCount + 1
            /\ stats_'[a[1]].decryptFailureCount = stats_[a[1]].decryptFailureCount
       ELSE /\ ret'.bytesWritten = 0
            /\ stats_'[a[1]].decryptFailureCount = stats_[a[1]].decryptFailureCount + 1
            /\ stats_'[a[1]].passthroughCount = stats_[a[1]].passthroughCount

\* C11 as stated: transition_to_passthrough(false, E) at time t opens the
\* window up to t + E; an unencrypted frame given to decrypt before t + E comes
\* back verbatim and counts as passthrough, after t + E it yields 0 bytes and
\* counts as a decrypt failure.
C11_WindowUntilExpiry ==
    [][/\ \A transitionExpiry \in TransitionExpiries :
              DecTransitionToPassthroughMode(FALSE, transitionExpiry)
              => allowPassThroughUntil_' = now + transitionExpiry
       /\ \A a \in PlainArrivals : a[1] \in MediaTypes => WindowDecides(a)]_vars

\* C11: transition_to_passthrough(false, E) at time t only ever shortens the
\* window, to the earlier of its previous end and t + E; an unencrypted frame
\* other than the Opus silence packet on audio, given to decrypt before the
\* end of the window, comes back verbatim and counts as passthrough, and at or
\* after the end of the window (so at any time from t + E on) it yields 0
\* bytes and counts as a decrypt failure.
C11_PassthroughWindow ==
    [][/\ \A transitionExpiry \in TransitionExpiries :
              DecTransitionToPassthroughMode(FALSE, transitionExpiry)
              => /\ allowPassThroughUntil_' = Min(allowPassThroughUntil_, now + transitionExpiry)
                 /\ allowPassThroughUntil_' <= now + transitionExpiry
       /\ \A a \in PlainArrivals :
              (a[1] \in MediaTypes /\ a[2] # RawFrame(kOpusSilencePacket))
              => WindowDecides(a)]_vars

\* a frame passed through inside a window that transition_to_passthrough(false)
\* closed, and the decrypt just made failed it after the window
C11_Witness ==
    /\ allowPassThroughUntil_ > 0 /\ allowPassThroughUntil_ < TimePointMax
    /\ now > allowPassThroughUntil_
    /\ stats_["audio"].passthroughCount > 0
    /\ stats_["audio"].decryptFailureCount > 0
    /\ ret.op = "decrypt" /\ ret.bytesWritten = 0

\* ------------------------------------------------------------------------
\* SpecRetry: Encrypt calls whose output the codec check rejects a given
\* number of times
\* ------------------------------------------------------------------------
RetryInputs == {<<"audio", "Unknown", 0>>, <<"video", "H264", 0>>,
                <<"video", "H264", MAX_CIPHERTEXT_VALIDATION_RETRIES - 1>>,
                <<"video", "H264", MAX_CIPHERTEXT_VALIDATION_RETRIES>>}

NextRetry ==
    \/ SenderSetKeyRatchet
    \/ \E in \in RetryInputs : SenderEncrypt(in[1], in[2], in[3])

SpecRetry == InitDec /\ [][NextRetry]_vars

ThreadCodec(t) == IF t = "video" THEN "H264" ELSE "Unknown"

\* how many outputs of one call validate_encrypted_frame rejects: none for a
\* codec without start codes
Rejections(t) ==
    IF t = "video" THEN {0, 1} ELSE {0}

\* Encrypt calls per behaviour of SpecEnc
MaxEncrypts == 3

InFlight == Cardinality({t \in MediaTypes : threads[t].pc # "idle"})

\* an encryptor `used` attempts into the life of ratchet 1 whose last nonce was
\* `last`; issued samples its first attempt, stats_ counts from here on
UsedEncryptor(last) ==
    /\ encryptor = [NewEncryptor EXCEPT !.keyRatchet_ = Some(NewRatchet(1)),
                                        !.cryptor_ = Some(<<1, last.gen>>),
                                        !.currentKeyGeneration_ = last.gen,
                                        !.truncatedNonce_ = last]
    /\ wire = <<>>
    /\ epoch = [sender |-> 1, receiver |-> 0]
    /\ threads = [t \in MediaTypes |-> NoEncryptCall]
    /\ issued = << [ratchet |-> 1, nonce |-> Nonce(0, 1), cipher |-> <<1, 0>>] >>

\* a new encryptor, one about to enter generation 1, and one about to wrap its
\* 32-bit truncatedNonce_
InitEnc ==
    /\ IdleGenerations
    /\ now = 0
    /\ ticks = 0
    /\ cryptorManagers_ = <<>>
    /\ ret = NoCall
    /\ IdleDecryptor
    /\ IdleVoice
    /\ \/ IdleSender /\ IdleThreads
       \/ UsedEncryptor(Nonce(0, SeqWrap - 2))
       \/ UsedEncryptor(Nonce(GenBitsWrap - 1, SeqWrap - 2))

\* Encrypt, lines 40-101: up to the first attempt
EncBegin(t, rejected) ==
    /\ threads[t].pc = "idle"
    /\ EncryptCalls + InFlight < MaxEncrypts
    /\ IF encryptor.passthroughMode_ \/ encryptor.keyRatchet_ = None
       THEN LET r == Encrypt(encryptor, t, ThreadCodec(t), Payload, rejected)
            IN  /\ encryptor' = r.enc
                /\ wire' = IF r.frame = None THEN wire
                           ELSE Append(wire, [frame |-> r.frame[1], mediaType |-> t,
                                              input |-> Payload, ratchet |-> 0])
                /\ UNCHANGED threads
       ELSE /\ threads' = [threads EXCEPT ![t] = [NoEncryptCall EXCEPT
                                !.pc = "attempt", !.attempt = 1, !.rejected = rejected]]
            /\ UNCHANGED <<encryptor, wire>>
    /\ UNCHANGED <<clockVars, decryptorVars, epoch, ret, issued, voiceVars, audioVars,
                   socketVars, courierVars, runVars, streamVars, genVars, auxVars>>

\* lines 103-108: GetNextCryptorAndNonce under keyGenMutex_
EncGetNext(t) ==
    /\ threads[t].pc = "attempt"
    /\ LET r == GetNextCryptorAndNonce(encryptor)
       IN  IF r.cryptor = None
           THEN /\ encryptor' = [r.enc EXCEPT !.stats_[t].encryptFailureCount = @ + 1]
                /\ threads' = [threads EXCEPT ![t] = NoEncryptCall]
                /\ UNCHANGED issued
           ELSE /\ encryptor' = r.enc
                /\ threads' = [threads EXCEPT ![t].pc = "seal",
                                              ![t].cryptor = r.cryptor,
                                              ![t].truncatedNonce = r.truncatedNonce,
                                              ![t].ratchet = encryptor.keyRatchet_[1].id]
                /\ issued' = Append(issued, [ratchet |-> encryptor.keyRatchet_[1].id,
                                             nonce |-> r.truncatedNonce,
                                             cipher |-> r.cryptor[1]])
    /\ UNCHANGED <<clockVars, decryptorVars, wire, epoch, ret, voiceVars, audioVars,
                   socketVars, courierVars, runVars, streamVars, genVars, auxVars>>

\* lines 110-203: seal with the cipher and nonce of this attempt, validate
EncSeal(t) ==
    /\ threads[t].pc = "seal"
    /\ LET c == threads[t]
           processed == ProcessFrame(Payload, ThreadCodec(t))
           counted == [encryptor EXCEPT
               !.stats_[t].encryptAttempts = @ + 1,
               !.stats_[t].encryptMaxAttempts = IF @ < c.attempt THEN c.attempt ELSE @]
           frame == WireFrame(processed.unencryptedBytes,
                              AeadEncrypt(c.cryptor[1], c.truncatedNonce,
                                          processed.unencryptedBytes,
                                          processed.encryptedBytes),
                              c.truncatedNonce, processed.unencryptedRanges)
       IN  IF c.attempt > c.rejected
           THEN /\ encryptor' = [counted EXCEPT !.stats_[t].encryptSuccessCount = @ + 1]
                /\ wire' = Append(wire, [frame |-> frame, mediaType |-> t,
                                         input |-> Payload, ratchet |-> c.ratchet])
                /\ threads' = [threads EXCEPT ![t] = NoEncryptCall]
           ELSE IF c.attempt >= MAX_CIPHERTEXT_VALIDATION_RETRIES
           THEN /\ encryptor' = [counted EXCEPT !.stats_[t].encryptFailureCount = @ + 1]
                /\ threads' = [threads EXCEPT ![t] = NoEncryptCall]
                /\ UNCHANGED wire
           ELSE /\ encryptor' = counted
                /\ threads' = [threads EXCEPT ![t].pc = "attempt",
                                              ![t].attempt = c.attempt + 1]
                /\ UNCHANGED wire
    /\ UNCHANGED <<clockVars, decryptorVars, epoch, ret, issued, voiceVars, audioVars,
                   socketVars, courierVars, runVars, streamVars, genVars, auxVars>>

\* the session thread installs the ratchet of the next epoch, or none
CtlSetKeyRatchet(fresh) ==
    /\ fresh => epoch.sender < MaxRatchets
    /\ encryptor' = SetKeyRatchet(encryptor, IF fresh THEN Some(NewRatchet(epoch.sender + 1))
                                             ELSE None)
    /\ epoch' = IF fresh THEN [epoch EXCEPT !.sender = @ + 1] ELSE epoch
    /\ UNCHANGED <<clockVars, decryptorVars, wire, ret, threadVars, voiceVars,
                   audioVars, socketVars, courierVars, runVars, streamVars, genVars, auxVars>>

CtlSetPassthroughMode(passthroughMode) ==
    /\ encryptor' = SetPassthroughMode(encryptor, passthroughMode)
    /\ UNCHANGED <<clockVars, decryptorVars, wire, epoch, ret, threadVars, voiceVars,
                   audioVars, socketVars, courierVars, runVars, streamVars, genVars, auxVars>>

NextEnc ==
    \/ \E t \in MediaTypes : \E rejected \in Rejections(t) : EncBegin(t, rejected)
    \/ \E t \in MediaTypes : EncGetNext(t)
    \/ \E t \in MediaTypes : EncSeal(t)
    \/ \E fresh \in BOOLEAN : CtlSetKeyRatchet(fresh)
    \/ \E passthroughMode \in BOOLEAN : CtlSetPassthroughMode(passthroughMode)

SpecEnc == InitEnc /\ [][NextEnc]_vars

\* the 64-bit nonce of an attempt: the generation of its key over the low 24
\* bits of its truncated nonce
IssuedBigNonce(a) == compute_wrapped_big_nonce(a.cipher[2], a.nonce)

MaxDescriptions == 2
MaxPackets == 4
\* track markers queued at a time
MaxMarkers == 1

\* close codes error is called with: below the session range, its ends, 4014
CloseCodes == {4002, 4003, 4014, 4016}

SequenceWrap == 2 ^ 16
\* send_silence and the application send 20 ms of audio
PacketDuration == 20

VoiceState == [secret_key |-> secret_key, sequence |-> sequence, timestamp |-> timestamp,
               packet_nonce |-> packet_nonce, sending |-> sending, sent |-> sent,
               outbuf |-> outbuf, timescale |-> timescale, message_queue |-> message_queue]

\* lines 1564-1616, with send (958-964) and speak (1623-1636): the packet is
\* sealed under secret_key with the nonce packet_nonce and queued, then
\* packet_nonce moves on; sequence is 16 bits wide, timestamp and packet_nonce
\* stay far below 2^32 within MaxPackets packets
send_audio_opus(v, opus_packet, duration) ==
    LET frame_size == 48 * duration * (v.timescale \div 1000000)
        seq == (v.sequence + 1) % SequenceWrap
        packet == [key |-> v.secret_key, nonce |-> v.packet_nonce, sequence |-> seq,
                   timestamp |-> v.timestamp, payload |-> opus_packet,
                   nonceAfter |-> v.packet_nonce + 1]
    IN  [v EXCEPT !.sequence = seq,
                  !.timestamp = @ + frame_size,
                  !.packet_nonce = @ + 1,
                  !.sending = TRUE,
                  !.message_queue = IF v.sending THEN @ ELSE <<"client_speaking">> \o @,
                  !.outbuf = Append(@, [packet |-> packet, duration |-> duration]),
                  !.sent = Append(@, packet)]

\* lines 1493-1497
send_silence(v, duration) == send_audio_opus(v, kOpusSilencePacket, duration)

RECURSIVE SendAll(_, _)
SendAll(v, count) ==
    IF count = 0 THEN v ELSE SendAll(send_audio_opus(v, Payload, PacketDuration), count - 1)

InitVoice ==
    /\ IdleGenerations
    /\ now = 0
    /\ ticks = 0
    /\ cryptorManagers_ = <<>>
    /\ ret = NoCall
    /\ IdleDecryptor
    /\ IdleSender
    /\ IdleThreads
    /\ \E enable_dave \in BOOLEAN : NewVoiceClient(enable_dave)

\* std::make_unique<dave_state>() with a dave::mls::Session after Init, lines
\* 825-830: no encryptor yet, an empty privacy_code (the empty std::string is
\* the empty sequence of digit groups), and a session that has processed no
\* commit or welcome and so holds no epoch authenticator
NewDaveState == [protocol_version |-> MaxSupportedProtocolVersion, privacy_code |-> <<>>,
                 has_encryptor |-> FALSE, processed |-> 0, epoch_authenticator |-> <<>>]

\* voice_opcode_connection_description, lines 807-851; readySends is the number
\* of packets the on_voice_ready handler sends
VoiceSessionDescription(dave_protocol_version, readySends) ==
    /\ secret_key < MaxDescriptions
    /\ LET keyed == [VoiceState EXCEPT !.secret_key = secret_key + 1]
           requested == dave_version # dave_version_none
           downgrade == requested /\ dave_protocol_version # dave_version
           silenced == IF ~requested \/ downgrade
                       THEN send_silence(keyed, PacketDuration)
                       ELSE keyed
           ready == SendAll(silenced, readySends)
       IN  /\ Len(ready.sent) <= MaxPackets
           /\ secret_key' = ready.secret_key
           /\ has_secret_key' = TRUE
           /\ dave_version' = IF downgrade THEN dave_version_none ELSE dave_version
           /\ mls_state' = IF requested
                           THEN Some(NewDaveState)
                           ELSE mls_state
           /\ written' = IF requested
                         THEN Append(written, [opcode |-> "OP_BINARY",
                                               message |-> "voice_client_dave_mls_key_package"])
                         ELSE written
           /\ sequence' = ready.sequence
           /\ timestamp' = ready.timestamp
           /\ sending' = ready.sending
           /\ sent' = ready.sent
           /\ outbuf' = ready.outbuf
           /\ message_queue' = ready.message_queue
           /\ packet_nonce' = 1
    /\ UNCHANGED <<clockVars, decryptorVars, senderVars, epoch, ret, threadVars,
                   terminating, track_meta, tracks, timescale, courierVars, runVars,
                   streamVars, genVars, auxVars>>

\* the application sends audio or silence
VoiceSendAudioOpus(opus_packet, duration) ==
    /\ Len(sent) < MaxPackets
    /\ LET v == send_audio_opus(VoiceState, opus_packet, duration)
       IN  /\ sequence' = v.sequence
           /\ timestamp' = v.timestamp
           /\ packet_nonce' = v.packet_nonce
           /\ sending' = v.sending
           /\ sent' = v.sent
           /\ outbuf' = v.outbuf
           /\ message_queue' = v.message_queue
    /\ UNCHANGED <<clockVars, decryptorVars, senderVars, epoch, ret, threadVars,
                   secret_key, has_secret_key, dave_version, mls_state,
                   terminating, track_meta, tracks, timescale, written, courierVars, runVars,
                   streamVars, genVars, auxVars>>

\* insert_marker, lines 1441-1454: a track marker, the two bytes of
\* AUDIO_TRACK_MARKER = 0xFFFF, goes into outbuf through send (duration 0),
\* then metadata is appended to track_meta and tracks is counted up. The
\* field queued of the entry is history: the metadata of the call that
\* queued it.
insert_marker(metadata) ==
    /\ outbuf' = Append(outbuf, [packet |-> [payload |-> <<255, 255>>], duration |-> 0,
                                 queued |-> metadata])
    /\ track_meta' = Append(track_meta, metadata)
    /\ tracks' = tracks + 1
    /\ UNCHANGED <<clockVars, decryptorVars, senderVars, epoch, ret, threadVars, voiceVars,
                   terminating, timescale, socketVars, courierVars, runVars, streamVars, genVars, auxVars>>

VoiceInsertMarker ==
    /\ tracks < MaxMarkers
    /\ insert_marker("metadata")

\* error, lines 1235-1280, with stop_audio, lines 950-956
VoiceError(errorcode) ==
    /\ IF errorcode >= 4003
       THEN /\ outbuf' = <<>>
            /\ track_meta' = <<>>
            /\ tracks' = 0
            /\ terminating' = TRUE
       ELSE UNCHANGED <<outbuf, track_meta, tracks, terminating>>
    /\ UNCHANGED <<clockVars, decryptorVars, senderVars, epoch, ret, threadVars, voiceVars,
                   timescale, socketVars, courierVars, runVars, streamVars, genVars, auxVars>>

NextVoice ==
    \/ \E dave_protocol_version \in {dave_version_none, dave_version_1}, readySends \in 0..1 :
           VoiceSessionDescription(dave_protocol_version, readySends)
    \/ \E opus_packet \in {Payload, kOpusSilencePacket} :
           VoiceSendAudioOpus(opus_packet, PacketDuration)
    \/ VoiceInsertMarker
    \/ \E errorcode \in CloseCodes : VoiceError(errorcode)

SpecVoice == InitVoice /\ [][NextVoice]_vars

\* C5: no two packets built under the same transport secret key carry the
\* same packet_nonce, and building a packet moves packet_nonce on by exactly
\* one.
C5_TransportNonceUnique ==
    /\ \A j \in 1..Len(sent) : \A i \in 1..(j - 1) :
           sent[i].key = sent[j].key => sent[i].nonce # sent[j].nonce
    /\ \A i \in 1..Len(sent) : sent[i].nonceAfter = sent[i].nonce + 1

\* C14 as stated: for the close codes 4003..4016, error(code) clears outbuf,
\* track_meta and tracks and sets terminating exactly when code # 4014;
\* error(4014) leaves terminating as it was.
C14_FatalCloseCodes ==
    [][\A errorcode \in CloseCodes :
          (errorcode >= 4003 /\ errorcode <= 4016 /\ VoiceError(errorcode))
          => /\ outbuf' = <<>> /\ track_meta' = <<>> /\ tracks' = 0
             /\ terminating' = IF errorcode # 4014 THEN TRUE ELSE terminating]_vars

KeyPackageFrame == [opcode |-> "OP_BINARY", message |-> "voice_client_dave_mls_key_package"]

\* C15 as stated: a session description received while DAVE is requested
\* initialises the MLS session and writes the key package when the server
\* names the requested version; otherwise it sets dave_version to none, sends
\* 20 ms of silence, and neither initialises an MLS session nor writes a key
\* package.
C15_DaveNegotiation ==
    [][\A dave_protocol_version \in {dave_version_none, dave_version_1}, readySends \in 0..1 :
          (/\ dave_version # dave_version_none
           /\ VoiceSessionDescription(dave_protocol_version, readySends))
          => IF dave_protocol_version = dave_version
             THEN /\ mls_state' # None
                  /\ written' = Append(written, KeyPackageFrame)
                  /\ dave_version' = dave_version
             ELSE /\ dave_version' = dave_version_none
                  /\ sent'[Len(sent) + 1].payload = kOpusSilencePacket
                  /\ outbuf'[Len(outbuf) + 1].duration = 20
                  /\ mls_state' = mls_state
                  /\ written' = written]_vars

\* ---- voice courier: parking and delivery of received payloads ----

MaxParked == 3
wrap_around_test_boundary == 5000

\* voice_payload::operator<, lines 137-174: TRUE when a has the lower priority
\* in the std::priority_queue, i.e. b is delivered before a
voice_payload_less(a, b) ==
    IF a.timestamp # b.timestamp
    THEN a.timestamp > b.timestamp
    ELSE IF \/ (a.seq < wrap_around_test_boundary /\ b.seq >= wrap_around_test_boundary)
            \/ (a.seq >= wrap_around_test_boundary /\ b.seq < wrap_around_test_boundary)
         THEN (a.seq + wrap_around_test_boundary) % SequenceWrap
              > (b.seq + wrap_around_test_boundary) % SequenceWrap
         ELSE a.seq > b.seq

\* the pop orders std::priority_queue can produce for the payloads q: top()
\* is an element no other element is ordered before. When the comparison
\* leaves no such element (it is not a strict weak ordering over the queue)
\* the container's behaviour is undefined and any element may come out.
PopOrders(q) ==
    LET PriorityTops(rest) ==
            LET tops == {p \in rest : \A o \in rest : ~voice_payload_less(p, o)}
            IN  IF tops = {} THEN rest ELSE tops
    IN  {order \in [1..Cardinality(q) -> q] :
            /\ \A i, j \in 1..Cardinality(q) : i # j => order[i] # order[j]
            /\ \A i \in 1..Cardinality(q) :
                   order[i] \in PriorityTops({order[j] : j \in i..Cardinality(q)})}

\* discord_voice_client::read_ready, lines 1084-1121: park one decrypted
\* payload of the speaker, wake the courier and start it if it is not
\* running; vr stands for the payload's voice_receive_t object. read_ready
\* runs on the thread that cleanup() joins before it stops the courier
\* (lines 419-424), so nothing is parked once the courier is terminating.
CourierPark(seq, ts) ==
    LET vp == [seq |-> seq, timestamp |-> ts,
               vr |-> Cardinality(parking_lot.parked_payloads) + 1]
        range == IF parking_lot.decoder
                 THEN parking_lot.range
                 ELSE [parking_lot.range EXCEPT !.min_seq = vp.seq,
                                                !.min_timestamp = vp.timestamp]
        late == vp.seq < range.min_seq /\ vp.timestamp < range.min_timestamp
    IN  /\ Cardinality(parking_lot.parked_payloads) < MaxParked
        /\ ~courier.terminating
        /\ parking_lot' =
               IF late
               THEN [parking_lot EXCEPT !.range = range, !.decoder = TRUE]
               ELSE [parking_lot EXCEPT
                        !.range = [range EXCEPT !.max_seq = vp.seq,
                                                !.max_timestamp = vp.timestamp],
                        !.decoder = TRUE,
                        !.parked_payloads = @ \cup {vp}]
        /\ courier' = IF late THEN courier
                      ELSE [courier EXCEPT
                               !.signalled = @ \/ courier.pc = "wait",
                               !.pc = IF @ = "none" THEN "sleep" ELSE @]
        /\ UNCHANGED <<clockVars, decryptorVars, senderVars, epoch, ret, threadVars,
                       voiceVars, audioVars, socketVars, delivered, opus, runVars, streamVars, genVars, auxVars>>

\* decoder controls queued per behaviour
MaxCtls == 2

\* set_user_gain, lines 1282-1323: a negative factor is refused; factor 0 is
\* the Opus minimum gain and factor 1 is log10(1) * 20 * 256 = 0. The control
\* is queued on the speaker's parking lot whether or not a decoder exists; id
\* tells the queued controls apart.
VoiceSetUserGain(factor) ==
    /\ opus.queued < MaxCtls
    /\ IF factor < 0
       THEN UNCHANGED <<parking_lot, opus, streamVars, genVars, auxVars>>
       ELSE LET gain == IF factor = 0 THEN 0 - 32768 ELSE 0
            IN  /\ parking_lot' =
                       [parking_lot EXCEPT
                           !.pending_decoder_ctls =
                               Append(@, [gain |-> gain, id |-> opus.queued + 1])]
                /\ opus' = [opus EXCEPT !.queued = @ + 1]
    /\ UNCHANGED <<clockVars, decryptorVars, senderVars, epoch, ret, threadVars,
                   voiceVars, audioVars, socketVars, delivered, courier, runVars, streamVars, genVars, auxVars>>

\* voice_courier_loop, lines 217-266: after its sleep the courier takes the
\* parking lot under the mutex (the pending decoder controls only when the
\* decoder exists) and moves the range on; with nothing to deliver it exits
\* when terminating and waits on signal_iteration otherwise, and what it took
\* goes out of scope
CourierDrain ==
    /\ courier.pc = "sleep"
    /\ LET has_payload_to_deliver == parking_lot.parked_payloads # {}
           flush_data ==
               [min_seq |-> parking_lot.range.min_seq,
                parked_payloads |-> parking_lot.parked_payloads,
                pending_decoder_ctls |-> IF parking_lot.decoder
                                         THEN parking_lot.pending_decoder_ctls ELSE <<>>,
                decoder |-> parking_lot.decoder]
       IN  /\ parking_lot' =
                  [parking_lot EXCEPT
                      !.range.min_seq = (parking_lot.range.max_seq + 1) % SequenceWrap,
                      \* uint32_t; the timestamps parked stay far below 2^32
                      !.range.min_timestamp = parking_lot.range.max_timestamp + 1,
                      !.parked_payloads = {},
                      !.pending_decoder_ctls = IF parking_lot.decoder THEN <<>> ELSE @]
           /\ courier' =
                  IF has_payload_to_deliver
                  THEN [courier EXCEPT !.pc = "deliver", !.flush_data = Some(flush_data)]
                  ELSE [courier EXCEPT !.pc = IF courier.terminating THEN "exited" ELSE "wait",
                                       !.flush_data = None,
                                       !.signalled = FALSE]
    /\ UNCHANGED <<clockVars, decryptorVars, senderVars, epoch, ret, threadVars,
                   voiceVars, audioVars, socketVars, delivered, opus, runVars, streamVars, genVars, auxVars>>

\* signal_iteration.wait(lk) returns, lines 259-264: on a notification or
\* spuriously
CourierWake(spurious) ==
    /\ courier.pc = "wait"
    /\ courier.signalled \/ spurious
    /\ courier' = [courier EXCEPT !.pc = "sleep", !.signalled = FALSE]
    /\ UNCHANGED <<clockVars, decryptorVars, senderVars, epoch, ret, threadVars,
                   voiceVars, audioVars, socketVars, parking_lot, delivered, opus, runVars,
                   streamVars, genVars, auxVars>>

\* packet-loss concealment calls of the loop `for (seq = d.min_seq; ...; ++seq)`,
\* lines 292-327, from the i-th popped payload on: seq runs (modulo 2^16) from
\* one past the payload popped before to the sequence number of top()
RECURSIVE LostPackets(_, _, _)
LostPackets(order, seq, i) ==
    IF i > Len(order) THEN 0
    ELSE ((order[i].seq - seq + SequenceWrap) % SequenceWrap)
         + LostPackets(order, (order[i].seq + 1) % SequenceWrap, i + 1)

\* voice_courier_loop, lines 268-329, outside the mutex: without a receive
\* handler bound what was taken is dropped; otherwise the pending controls
\* are applied to the decoder and the payloads leave the priority queue from
\* top() downwards, lost sequence numbers in between producing events
\* without a payload
CourierDeliver(bound) ==
    /\ courier.pc = "deliver"
    /\ LET d == courier.flush_data[1]
       IN  IF bound /\ d.decoder
           THEN \E order \in PopOrders(d.parked_payloads) :
                    /\ delivered' = order
                    /\ opus' = [opus EXCEPT !.ctls = @ \o d.pending_decoder_ctls,
                                            !.plc = LostPackets(order, d.min_seq, 1),
                                            !.min_seq = d.min_seq]
           ELSE /\ delivered' = <<>>
                /\ opus' = [opus EXCEPT !.plc = 0, !.min_seq = d.min_seq]
    /\ courier' = [courier EXCEPT !.pc = "sleep", !.flush_data = None]
    /\ UNCHANGED <<clockVars, decryptorVars, senderVars, epoch, ret, threadVars,
                   voiceVars, audioVars, socketVars, parking_lot, runVars, streamVars, genVars, auxVars>>

NextCourier ==
    \/ \E vp \in {<<4999, 960>>, <<5000, 960>>, <<60536, 960>>, <<5000, 0>>} :
           CourierPark(vp[1], vp[2])
    \/ CourierDrain
    \/ \E spurious \in BOOLEAN : CourierWake(spurious)
    \/ \E bound \in BOOLEAN : CourierDeliver(bound)

SpecCourier == InitVoice /\ [][NextCourier]_vars

CourierCleanup_NoNotify ==
    /\ courier.pc # "none"
    /\ ~courier.terminating
    /\ courier' = [courier EXCEPT !.terminating = TRUE]
    /\ UNCHANGED <<clockVars, decryptorVars, senderVars, epoch, ret, threadVars,
                   voiceVars, audioVars, socketVars, parking_lot, delivered, opus, runVars,
                   streamVars, genVars, auxVars>>

\* cleanup(), lines 434-441, up to the join: with the courier thread started,
\* terminating is set under the mutex and signal_iteration is notified;
\* voice_courier.join() returns once the courier has exited
CourierCleanup ==
    /\ courier.pc # "none"
    /\ ~courier.terminating
    /\ courier' = [courier EXCEPT !.terminating = TRUE,
                                  !.signalled = @ \/ courier.pc = "wait"]
    /\ UNCHANGED <<clockVars, decryptorVars, senderVars, epoch, ret, threadVars,
                   voiceVars, audioVars, socketVars, parking_lot, delivered, opus, runVars,
                   streamVars, genVars, auxVars>>

\* the courier with three packets of a stream arriving in any order and any
\* number of times, gain changes and the shutdown
NextLot ==
    \/ \E vp \in {<<5000, 960>>, <<5001, 1920>>, <<5002, 2880>>} : CourierPark(vp[1], vp[2])
    \/ \E factor \in {0 - 1, 0, 1} : VoiceSetUserGain(factor)
    \/ CourierDrain
    \/ \E spurious \in BOOLEAN : CourierWake(spurious)
    \/ \E bound \in BOOLEAN : CourierDeliver(bound)
    \/ CourierCleanup

SpecLot == InitVoice /\ [][NextLot]_vars

\* C21 as stated: no queued decoder control is lost. Every control queued
\* by set_user_gain is still pending on the parking lot, or taken by the
\* courier for the delivery it is about to make, or applied to the decoder.
C21_ControlsApplied ==
    LET Ids(ctls) == {ctls[i].id : i \in 1..Len(ctls)}
        taken == IF courier.flush_data = None THEN <<>>
                 ELSE courier.flush_data[1].pending_decoder_ctls
    IN  \A id \in 1..opus.queued :
            id \in Ids(parking_lot.pending_decoder_ctls) \cup Ids(taken) \cup Ids(opus.ctls)

\* b follows a in RTP sequence order under 16-bit wrap-around
SeqFollows(a, b) == (b.seq - a.seq + SequenceWrap) % SequenceWrap \in 1..(SequenceWrap \div 2 - 1)

\* C16 as stated: the payloads of one courier iteration are delivered in
\* ascending timestamp order, payloads with one timestamp in sequence order
\* under 16-bit wrap-around, and voice_payload::operator< is irreflexive,
\* asymmetric and transitive over the parked payloads.
C16_CourierOrder ==
    /\ \A i, j \in 1..Len(delivered) :
           i < j => /\ delivered[i].timestamp <= delivered[j].timestamp
                    /\ (delivered[i].timestamp = delivered[j].timestamp
                         /\ delivered[i].seq # delivered[j].seq)
                        => SeqFollows(delivered[i], delivered[j])
    /\ \A a, b, c \in parking_lot.parked_payloads :
           /\ ~voice_payload_less(a, a)
           /\ voice_payload_less(a, b) => ~voice_payload_less(b, a)
           /\ (voice_payload_less(a, b) /\ voice_payload_less(b, c)) => voice_payload_less(a, c)

\* ---- outbound RTP headers ----

\* set_timescale, lines 1638-1641: any uint64_t is accepted
VoiceSetTimescale(new_timescale) ==
    /\ timescale # new_timescale
    /\ timescale' = new_timescale
    /\ UNCHANGED <<clockVars, decryptorVars, senderVars, epoch, ret, threadVars, voiceVars,
                   terminating, outbuf, track_meta, tracks, socketVars, courierVars, runVars,
                   streamVars, genVars, auxVars>>

\* send_audio_opus takes any uint64_t duration; 0 and 20 ms stand for them
NextRtp ==
    \/ \E opus_packet \in {Payload, kOpusSilencePacket}, duration \in {0, PacketDuration} :
           VoiceSendAudioOpus(opus_packet, duration)
    \/ \E new_timescale \in {1000, 1000000, 2000000} : VoiceSetTimescale(new_timescale)

SpecRtp == InitVoice /\ [][NextRtp]_vars

\* C17 as stated: of two consecutive packets built by send_audio_opus the
\* second carries the first's RTP sequence plus one (mod 2^16) and a strictly
\* greater RTP timestamp, whatever the duration and the timescale.
C17_RtpMonotonic ==
    \A i \in 1..(Len(sent) - 1) :
        /\ sent[i + 1].sequence = (sent[i].sequence + 1) % SequenceWrap
        /\ sent[i + 1].timestamp > sent[i].timestamp

\* ---- MLS frames and the privacy code ----

\* cryptor managers one decryptor collects per behaviour
MaxManagers == 2
\* the 64-byte epoch authenticator of the group state after the n-th
\* processed commit or welcome
EpochAuthenticator(n) == [i \in 1..64 |-> (n * 31 + i * 7) % 256]

\* generate_displayable_code, lines 194-210, with desired_length = 30 and
\* group_size = 5: six groups, each the big-endian value of five bytes modulo
\* 10^5, printed as five zero-padded digits and a space; the result is the
\* sequence of the groups' values. data.at() throws for fewer than 30 bytes.
generate_displayable_code(data) ==
    LET byte(g, k) == data[(g - 1) * 5 + k]
        \* (group_value << 8) | next_byte, kept modulo group_modulus
        shift(group_value, next_byte) == ((group_value * 256) + next_byte) % 100000
        group_value(g) ==
            shift(shift(shift(shift(shift(0, byte(g, 1)), byte(g, 2)), byte(g, 3)),
                        byte(g, 4)), byte(g, 5))
    IN  [g \in 1..6 |-> group_value(g)]

is_end_to_end_encrypted_AnyState(m) == m # None

\* lines 552-554
is_end_to_end_encrypted(m) == m # None /\ m[1].privacy_code # <<>>

\* lines 537-539
get_privacy_code(m) == IF is_end_to_end_encrypted(m) THEN m[1].privacy_code ELSE <<>>

\* voice_client_dave_mls_external_sender, lines 567-574. This and the other
\* binary frames dereference mls_state unchecked: on a client without an
\* MLS state the process faults and there is no next state.
VoiceExternalSender ==
    /\ mls_state # None
    /\ mls_state' = Some([mls_state[1] EXCEPT !.has_encryptor = TRUE])
    /\ encryptor' = NewEncryptor
    /\ cryptorManagers_' = <<>>
    /\ allowPassThroughUntil_' = 0 - TimePointMax
    /\ stats_' = [m \in MediaTypes |->
                     [passthroughCount |-> 0, decryptSuccessCount |-> 0,
                      decryptFailureCount |-> 0, decryptAttempts |-> 0]]
    /\ decryptors' = <<>>
    /\ UNCHANGED <<clockVars, accepted, wire, epoch, ret, threadVars, secret_key,
                   has_secret_key, dave_version, sequence, timestamp, packet_nonce, sending,
                   sent, audioVars, socketVars, courierVars, runVars, streamVars, genVars,
                   trackVars, raw_audio, inbound, fault, ssrc_map, dave_mls_user_list>>

\* the ratchet the session derives for a user in its n-th epoch; user 0 is
\* the member whose Decryptor is cryptorManagers_
UserRatchet(user, n) == 10 * user + n

\* voice_client_dave_announce_commit_transaction (lines 588-607, welcome =
\* FALSE) and voice_client_dave_mls_welcome (lines 609-625, welcome = TRUE).
\* processed says whether the session's ProcessCommit or ProcessWelcome took
\* the message; the session then is in a new epoch with new ratchets and a
\* new authenticator. Without a group state the session hands out no ratchet
\* and an empty authenticator. For every user of dave_mls_user_list,
\* decryptors.emplace adds a Decryptor only when the user has none, and
\* TransitionToKeyRatchet is called on the one the map then holds; the
\* transition expiry is its default argument. cryptorManagers_ is the
\* Decryptor of one more member, who is in every member list.
VoiceMlsTransition_ReplaceDecryptor(welcome, processed) ==
    /\ mls_state # None
    /\ mls_state[1].has_encryptor
    /\ processed => epoch.sender < MaxRatchets /\ epoch.receiver < MaxRatchets
    /\ LET dave == mls_state[1]
           after == IF processed THEN dave.processed + 1 ELSE dave.processed
           authenticator == IF processed THEN EpochAuthenticator(after)
                            ELSE dave.epoch_authenticator
           ids == IF processed
                  THEN [sender |-> epoch.sender + 1, receiver |-> epoch.receiver + 1]
                  ELSE epoch
           GetKeyRatchet(user) == IF after = 0 THEN None
                                  ELSE Some(UserRatchet(user, ids.receiver))
           install == ~welcome \/ processed
       IN  /\ (install /\ after > 0) => Len(cryptorManagers_) < MaxManagers
           /\ epoch' = ids
           /\ IF install
              THEN /\ \E transitionExpiry \in TransitionExpiries :
                          /\ cryptorManagers_' =
                                 TransitionToKeyRatchet(cryptorManagers_, GetKeyRatchet(0),
                                                        transitionExpiry, now)
                          /\ decryptors' =
                                 [user \in DOMAIN decryptors \cup dave_mls_user_list |->
                                     IF user \in dave_mls_user_list
                                     THEN TransitionToKeyRatchet(<<>>, GetKeyRatchet(user),
                                                                 transitionExpiry, now)
                                     ELSE decryptors[user]]
                   /\ encryptor' =
                          SetKeyRatchet(encryptor, IF after = 0 THEN None
                                                   ELSE Some(NewRatchet(ids.sender)))
              ELSE UNCHANGED <<cryptorManagers_, decryptors, encryptor>>
           /\ mls_state' =
                  Some([dave EXCEPT
                           !.processed = after,
                           !.epoch_authenticator = authenticator,
                           !.privacy_code = IF Len(authenticator) >= 30
                                            THEN generate_displayable_code(authenticator)
                                            ELSE @])
    /\ UNCHANGED <<clockVars, allowPassThroughUntil_, stats_, accepted, wire, ret, threadVars,
                   secret_key, has_secret_key, dave_version, sequence, timestamp, packet_nonce,
                   sending, sent, audioVars, socketVars, courierVars, runVars, streamVars,
                   genVars, trackVars, raw_audio, inbound, fault, ssrc_map, dave_mls_user_list>>

VoiceMlsTransition(welcome, processed) ==
    /\ mls_state # None
    /\ mls_state[1].has_encryptor
    /\ processed => epoch.sender < MaxRatchets /\ epoch.receiver < MaxRatchets
    /\ LET dave == mls_state[1]
           after == IF processed THEN dave.processed + 1 ELSE dave.processed
           authenticator == IF processed THEN EpochAuthenticator(after)
                            ELSE dave.epoch_authenticator
           ids == IF processed
                  THEN [sender |-> epoch.sender + 1, receiver |-> epoch.receiver + 1]
                  ELSE epoch
           GetKeyRatchet(user) == IF after = 0 THEN None
                                  ELSE Some(UserRatchet(user, ids.receiver))
           install == ~welcome \/ processed
       IN  /\ (install /\ after > 0) => Len(cryptorManagers_) < MaxManagers
           /\ epoch' = ids
           /\ IF install
              THEN /\ \E transitionExpiry \in TransitionExpiries :
                          /\ cryptorManagers_' =
                                 TransitionToKeyRatchet(cryptorManagers_, GetKeyRatchet(0),
                                                        transitionExpiry, now)
                          /\ decryptors' =
                                 [user \in DOMAIN decryptors \cup dave_mls_user_list |->
                                     IF user \in dave_mls_user_list
                                     THEN TransitionToKeyRatchet(
                                              IF user \in DOMAIN decryptors
                                              THEN decryptors[user] ELSE <<>>,
                                              GetKeyRatchet(user), transitionExpiry, now)
                                     ELSE decryptors[user]]
                   /\ encryptor' =
                          SetKeyRatchet(encryptor, IF after = 0 THEN None
                                                   ELSE Some(NewRatchet(ids.sender)))
              ELSE UNCHANGED <<cryptorManagers_, decryptors, encryptor>>
           /\ mls_state' =
                  Some([dave EXCEPT
                           !.processed = after,
                           !.epoch_authenticator = authenticator,
                           !.privacy_code = IF Len(authenticator) >= 30
                                            THEN generate_displayable_code(authenticator)
                                            ELSE @])
    /\ UNCHANGED <<clockVars, allowPassThroughUntil_, stats_, accepted, wire, ret, threadVars,
                   secret_key, has_secret_key, dave_version, sequence, timestamp, packet_nonce,
                   sending, sent, audioVars, socketVars, courierVars, runVars, streamVars,
                   genVars, trackVars, raw_audio, inbound, fault, ssrc_map, dave_mls_user_list>>

NextMls ==
    \/ \E dave_protocol_version \in {dave_version_none, dave_version_1} :
           VoiceSessionDescription(dave_protocol_version, 0)
    \/ Tick(CIPHER_EXPIRY)
    \/ VoiceExternalSender
    \/ \E welcome \in BOOLEAN, processed \in BOOLEAN : VoiceMlsTransition(welcome, processed)

SpecMls == InitVoice /\ [][NextMls]_vars

MaxReturns == 6
MaxConnects == 7

LoopCount_NoReset(times_looped, current_time, last_loop_time) == times_looped + 1

\* lines 466-474: times_looped after one more return of the read loop
LoopCount(times_looped, current_time, last_loop_time) ==
    (IF current_time - last_loop_time >= 3 THEN 0 ELSE times_looped) + 1

\* lines 462-483: ssl_client::read_loop() runs for elapsed clock ticks and
\* returns, the socket is closed, and the loop counts the return;
\* time(nullptr) is the clock in whole seconds
ThreadRunReadLoop(elapsed) ==
    /\ runner.pc = "read_loop"
    /\ Len(runner.returns) < MaxReturns
    /\ now' = now + elapsed
    /\ LET current_time == (now + elapsed) \div TicksPerSecond
           times_looped == LoopCount(runner.times_looped, current_time, runner.last_loop_time)
       IN  runner' =
               [runner EXCEPT
                   !.error = FALSE,
                   !.returns = Append(@, now + elapsed),
                   !.times_looped = times_looped,
                   !.last_loop_time = IF times_looped >= 5 THEN @ ELSE current_time,
                   !.pc = IF times_looped >= 5 THEN "aborted"
                          ELSE IF terminating THEN "done" ELSE "connect"]
    /\ UNCHANGED <<ticks, decryptorVars, senderVars, epoch, ret, threadVars, voiceVars,
                   audioVars, socketVars, courierVars, sessionVars, streamVars, genVars, auxVars>>

ThreadRunConnect_UntilConnected(established) ==
    /\ runner.pc = "connect"
    /\ runner.connects < MaxConnects
    /\ now' = IF established THEN now ELSE now + 5 * TicksPerSecond
    /\ LET error == runner.error \/ ~established
       IN  runner' = [runner EXCEPT
                         !.connects = @ + 1,
                         !.error = error,
                         !.pc = IF error THEN "connect"
                                ELSE IF terminating THEN "done" ELSE "read_loop"]
    /\ state' = IF established THEN "HTTP_HEADERS" ELSE state
    /\ UNCHANGED <<ticks, decryptorVars, senderVars, epoch, ret, threadVars, voiceVars,
                   audioVars, socketVars, courierVars, heartbeat_interval, last_heartbeat,
                   receive_sequence, modes, connect_time, streamVars, genVars, auxVars>>

\* lines 485-498: one pass of the reconnect loop; a failed connect closes the
\* socket and sleeps 5 seconds. error is cleared only at the top of the outer
\* loop, so after one failure the inner loop repeats until terminating is set.
\* websocket_client::connect() starts the HTTP upgrade again.
ThreadRunConnect(established) ==
    /\ runner.pc = "connect"
    /\ runner.connects < MaxConnects
    /\ now' = IF established THEN now ELSE now + 5 * TicksPerSecond
    /\ LET error == runner.error \/ ~established
       IN  runner' = [runner EXCEPT
                         !.connects = @ + 1,
                         !.error = error,
                         !.pc = IF error /\ ~terminating THEN "connect"
                                ELSE IF terminating THEN "done" ELSE "read_loop"]
    /\ state' = IF established THEN "HTTP_HEADERS" ELSE state
    /\ UNCHANGED <<ticks, decryptorVars, senderVars, epoch, ret, threadVars, voiceVars,
                   audioVars, socketVars, courierVars, heartbeat_interval, last_heartbeat,
                   receive_sequence, modes, connect_time, streamVars, genVars, auxVars>>

NextRun ==
    \/ \E elapsed \in {500, 2500, 3000} : ThreadRunReadLoop(elapsed)
    \/ \E established \in BOOLEAN : ThreadRunConnect(established)
    \/ \E errorcode \in CloseCodes : VoiceError(errorcode)

SpecRun == InitVoice /\ [][NextRun]_vars

\* the number of returns at the end of r that follow one another with a gap
\* that Tight accepts
ReturnsInARow(r, Tight(_, _)) ==
    CHOOSE c \in 1..Len(r) :
        /\ \A k \in (Len(r) - c + 2)..Len(r) : Tight(r[k - 1], r[k])
        /\ c = Len(r) \/ ~Tight(r[Len(r) - c], r[Len(r) - c + 1])

MaxQueued == 4

TextFrame(message) == [opcode |-> "OP_TEXT", message |-> message]

\* the websocket finished its HTTP upgrade
WsHandshake ==
    /\ state = "HTTP_HEADERS"
    /\ state' = "CONNECTED"
    /\ UNCHANGED <<clockVars, decryptorVars, senderVars, epoch, ret, threadVars, voiceVars,
                   audioVars, socketVars, courierVars, runner, heartbeat_interval,
                   last_heartbeat, receive_sequence, modes, connect_time, streamVars, genVars, auxVars>>

\* the IDENTIFY frame of lines 788-801 with its max_dave_protocol_version
IdentifyFrame(version) ==
    [opcode |-> "OP_TEXT", message |-> "voice_opcode_connection_identify",
     max_dave_protocol_version |-> version]

VoiceHello_IdentifyAgain(interval) ==
    /\ state = "CONNECTED"
    /\ Len(message_queue) + Len(written) < MaxQueued
    /\ heartbeat_interval' = IF interval = None THEN heartbeat_interval ELSE interval[1]
    /\ receive_sequence' = 0 - 1
    /\ written' = Append(written, IdentifyFrame(dave_version))
    /\ connect_time' = now \div TicksPerSecond
    /\ UNCHANGED <<clockVars, decryptorVars, senderVars, epoch, ret, threadVars, voiceVars,
                   audioVars, message_queue, courierVars, runner, state, last_heartbeat,
                   modes, streamVars, genVars, auxVars>>

\* voice_opcode_connection_hello, lines 763-802; interval is the frame's
\* heartbeat_interval, None when the frame has none
VoiceHello(interval) ==
    /\ state = "CONNECTED"
    /\ Len(message_queue) + Len(written) < MaxQueued
    /\ heartbeat_interval' = IF interval = None THEN heartbeat_interval ELSE interval[1]
    /\ receive_sequence' = 0 - 1
    /\ written' = Append(written, IF modes # <<>>
                                  THEN TextFrame("voice_opcode_connection_resume")
                                  ELSE IdentifyFrame(dave_version))
    /\ connect_time' = now \div TicksPerSecond
    /\ UNCHANGED <<clockVars, decryptorVars, senderVars, epoch, ret, threadVars, voiceVars,
                   audioVars, message_queue, courierVars, runner, state, last_heartbeat,
                   modes, streamVars, genVars, auxVars>>

\* queue_message, lines 1330-1338
VoiceQueueMessage(j, to_front) ==
    /\ Len(message_queue) + Len(written) < MaxQueued
    /\ message_queue' = IF to_front THEN <<j>> \o message_queue ELSE Append(message_queue, j)
    /\ UNCHANGED <<clockVars, decryptorVars, senderVars, epoch, ret, threadVars, voiceVars,
                   audioVars, written, courierVars, runVars, streamVars, genVars, auxVars>>

\* one_second_timer, lines 1357-1390, when terminating is unset (it throws
\* otherwise): up to (time(nullptr) % 2) + 1 messages leave the front of the
\* queue, then a heartbeat is queued to the front when
\* time(nullptr) > last_heartbeat + (heartbeat_interval / 1000.0) * 0.75
VoiceOneSecondTimer ==
    /\ ~terminating
    /\ IF state = "CONNECTED"
       THEN LET time == now \div TicksPerSecond
                count == Min((time % 2) + 1, Len(message_queue))
                rest == SubSeq(message_queue, count + 1, Len(message_queue))
                due == /\ heartbeat_interval # 0
                       /\ time * 4000 > last_heartbeat * 4000 + heartbeat_interval * 3
            IN  /\ written' = written \o [x \in 1..count |-> TextFrame(message_queue[x])]
                /\ message_queue' =
                       IF due THEN <<"voice_opcode_connection_heartbeat">> \o rest ELSE rest
                /\ last_heartbeat' = IF due THEN time ELSE last_heartbeat
       ELSE UNCHANGED <<message_queue, written, last_heartbeat>>
    /\ UNCHANGED <<clockVars, decryptorVars, senderVars, epoch, ret, threadVars, voiceVars,
                   audioVars, courierVars, runner, state, heartbeat_interval,
                   receive_sequence, modes, connect_time, streamVars, genVars, auxVars>>

NextTimer ==
    \/ Tick(TicksPerSecond)
    \/ WsHandshake
    \/ \E interval \in {None, Some(1000), Some(4000)} : VoiceHello(interval)
    \/ \E j \in {"voice_opcode_client_speaking", "voice_opcode_connection_select_protocol"},
          to_front \in BOOLEAN : VoiceQueueMessage(j, to_front)
    \/ VoiceOneSecondTimer

SpecTimer == InitVoice /\ [][NextTimer]_vars

\* C20 as stated: a one_second_timer tick in CONNECTED state writes at most 1
\* queued message when the current second is odd and at most 2 when it is
\* even; the messages written are the front of the queue, in queue order, and
\* leave the queue as they are written.
C20_RateLimit ==
    [][(VoiceOneSecondTimer /\ state = "CONNECTED")
       => LET time == now \div TicksPerSecond
              count == Len(written') - Len(written)
              rest == SubSeq(message_queue, count + 1, Len(message_queue))
          IN  /\ count <= (IF time % 2 = 1 THEN 1 ELSE 2)
              /\ count <= Len(message_queue)
              /\ written' = written \o [x \in 1..count |-> TextFrame(message_queue[x])]
              /\ message_queue' \in {rest, <<"voice_opcode_connection_heartbeat">> \o rest}]_vars

\* ---- outbound audio queue: write_ready and the stream mutex ----

\* pause_audio, lines 925-928
VoicePauseAudio(pause) ==
    /\ paused # pause
    /\ paused' = pause
    /\ UNCHANGED <<clockVars, decryptorVars, senderVars, epoch, ret, threadVars, voiceVars,
                   audioVars, socketVars, courierVars, runVars, access, genVars, auxVars>>

\* get_marker_metadata, lines 1352-1355: track_meta is copied under a shared
\* lock of queue_mutex
VoiceGetMarkerMetadata ==
    /\ access' = access \cup {[method |-> "get_marker_metadata", field |-> "track_meta",
                               held |-> {"queue_mutex"}]}
    /\ UNCHANGED <<clockVars, decryptorVars, senderVars, epoch, ret, threadVars, voiceVars,
                   audioVars, socketVars, courierVars, runVars, paused, genVars, auxVars>>

\* write_ready, lines 1130-1210. Under stream_mutex a leading track marker
\* is removed and the packet then at the head of outbuf is passed to udp_send
\* (sent_whole says whether udp_send wrote it whole); after the lock is
\* released and the pacing sleep is over, the on_voice_buffer_send event
\* reads outbuf.size(), and the on_voice_track_marker event takes the first
\* track_meta under stream_mutex again (an empty string when there is none).
\* buffer_send and track_marker say whether the handlers are bound.
IsTrackMarker(entry) == entry.packet = [payload |-> <<255, 255>>]

VoiceWriteReady(sent_whole, buffer_send, track_marker) ==
    LET active == ~paused /\ outbuf # <<>>
        track_marker_found == active /\ IsTrackMarker(outbuf[1])
        unmarked == IF track_marker_found THEN Tail(outbuf) ELSE outbuf
        offered == active /\ unmarked # <<>>
        written_out == offered /\ sent_whole
        duration == IF written_out THEN unmarked[1].duration * timescale ELSE 0
        Locked(fields) == {[method |-> "write_ready", field |-> f, held |-> {"stream_mutex"}]
                             : f \in fields}
    IN  /\ outbuf' = IF written_out THEN Tail(unmarked) ELSE unmarked
        /\ udp_out' = IF offered THEN udp_out \cup {unmarked[1].packet} ELSE udp_out
        /\ tracks' = IF track_marker_found /\ tracks > 0 THEN tracks - 1 ELSE tracks
        /\ track_meta' = IF track_marker_found /\ track_marker /\ track_meta # <<>>
                         THEN Tail(track_meta) ELSE track_meta
        /\ marker_events' =
               IF track_marker_found /\ track_marker
               THEN marker_events \cup
                        {[track_meta |-> IF track_meta # <<>> THEN track_meta[1] ELSE "",
                          queued |-> outbuf[1].queued]}
               ELSE marker_events
        /\ access' =
               access \cup Locked({"outbuf"})
                      \cup (IF track_marker_found THEN Locked({"tracks"}) ELSE {})
                      \cup (IF duration # 0 /\ buffer_send
                            THEN {[method |-> "write_ready", field |-> "outbuf", held |-> {}]}
                            ELSE {})
                      \cup (IF track_marker_found /\ track_marker
                            THEN Locked({"track_meta"}) ELSE {})
        /\ UNCHANGED <<clockVars, decryptorVars, senderVars, epoch, ret, threadVars, voiceVars,
                       terminating, timescale, socketVars, courierVars, runVars, paused, genVars,
                       peerVars, raw_audio>>

\* most track_meta entries held at once
MaxTrackMeta == 2

NextStream ==
    \/ VoiceSendAudioOpus(Payload, PacketDuration)
    \/ Len(track_meta) < MaxTrackMeta /\ VoiceInsertMarker
    \/ \E pause \in BOOLEAN : VoicePauseAudio(pause)
    \/ VoiceGetMarkerMetadata
    \/ \E sent_whole \in BOOLEAN, buffer_send \in BOOLEAN, track_marker \in BOOLEAN :
           VoiceWriteReady(sent_whole, buffer_send, track_marker)

SpecStream == InitVoice /\ [][NextStream]_vars

\* C22 as stated: every access to outbuf, tracks and track_meta is made with
\* stream_mutex held.
C22_StreamMutexHeld ==
    \A a \in access :
        a.field \in {"outbuf", "tracks", "track_meta"} => "stream_mutex" \in a.held

\* ------------------------------------------------------------------------
\* The manager loop of decrypt (SpecDec)
\* ------------------------------------------------------------------------
\* the replay state of a cipher manager
ReplayState(m) == <<m.newestProcessedNonce_, m.missingNonces_, m.newestGeneration_>>

\* C23: decrypt of an encrypted frame tries the managers newest first and
\* stops at the first that authenticates the frame. On success the replay
\* state of exactly that manager changes; when no manager authenticates the
\* frame no replay state changes, 0 is returned and decryptFailureCount
\* grows by one.
C23_NewestFirst ==
    [][ \A i \in 1..Len(wire) :
          LET f == wire[i].frame
              mediaType == wire[i].mediaType
              parsed == ParseFrame(f)
              before == CleanupExpiredCryptorManagers(cryptorManagers_, now)
              after == cryptorManagers_'
              authenticating ==
                  {j \in 1..Len(before) :
                      DecryptImpl(before[j], parsed, f.ciphertext[1], now).success}
              changed == {j \in 1..Len(before) :
                            ReplayState(after[j]) # ReplayState(before[j])}
          IN  DecDecrypt(mediaType, f) /\ parsed.isEncrypted =>
                /\ Len(after) = Len(before)
                /\ IF authenticating # {}
                   THEN /\ changed = {CHOOSE j \in authenticating :
                                         \A k \in authenticating : k <= j}
                        /\ ret'.bytesWritten > 0
                        /\ stats_'[mediaType].decryptFailureCount =
                               stats_[mediaType].decryptFailureCount
                   ELSE /\ changed = {}
                        /\ ret'.bytesWritten = 0
                        /\ stats_'[mediaType].decryptFailureCount =
                               stats_[mediaType].decryptFailureCount + 1 ]_vars

\* a frame was decrypted by the older of two managers after the newer one
\* had tried and failed to authenticate a frame
C23_Witness ==
    /\ Len(cryptorManagers_) = 2
    /\ ret.op = "decrypt"
    /\ ret.bytesWritten > 0
    /\ cryptorManagers_[1].newestProcessedNonce_ # None
    /\ cryptorManagers_[2].newestProcessedNonce_ = None
    /\ cryptorManagers_[2].cryptors_ # <<>>

\* ------------------------------------------------------------------------
\* SpecPass: Encrypt calls of an encryptor that is switched in and out of
\* passthrough mode and given or denied a key ratchet
\* ------------------------------------------------------------------------
NextPass ==
    \/ \E in \in EncryptInputs : SenderEncrypt(in[1], in[2], in[3])
    \/ \E fresh \in BOOLEAN : CtlSetKeyRatchet(fresh)
    \/ \E passthroughMode \in BOOLEAN : CtlSetPassthroughMode(passthroughMode)

SpecPass == InitEnc /\ [][NextPass]_vars

\* C24: an Encrypt call made with passthrough on emits the frame verbatim,
\* reports its size as bytes_written, counts passthroughCount and returns
\* Success; one made with passthrough off and no key ratchet returns
\* EncryptionFailure, counts encryptFailureCount and emits nothing. Neither
\* changes truncated_nonce, the current key generation, the cached cipher or
\* the key ratchet.
C24_NoEncryptNoRatchetChange ==
    [][ \A in \in EncryptInputs :
          (SenderEncrypt(in[1], in[2], in[3])
             /\ (encryptor.passthroughMode_ \/ encryptor.keyRatchet_ = None))
          => LET before == encryptor.stats_[in[1]]
                 after == encryptor'.stats_[in[1]]
             IN  /\ encryptor'.truncatedNonce_ = encryptor.truncatedNonce_
                 /\ encryptor'.currentKeyGeneration_ = encryptor.currentKeyGeneration_
                 /\ encryptor'.cryptor_ = encryptor.cryptor_
                 /\ encryptor'.keyRatchet_ = encryptor.keyRatchet_
                 /\ IF encryptor.passthroughMode_
                    THEN /\ ret'.result = "Success"
                         /\ ret'.bytesWritten = Len(Payload)
                         /\ Len(wire') = Len(wire) + 1
                         /\ wire'[Len(wire')].frame = RawFrame(Payload)
                         /\ after = [before EXCEPT !.passthroughCount = @ + 1]
                    ELSE /\ ret'.result = "EncryptionFailure"
                         /\ wire' = wire
                         /\ after = [before EXCEPT !.encryptFailureCount = @ + 1] ]_vars

\* a passthrough call was served by an encryptor that is in the middle of a
\* ratchet's life
C24_Witness ==
    /\ ret.op = "Encrypt" /\ ret.result = "Success" /\ ret.bytesWritten = Len(Payload)
    /\ encryptor.passthroughMode_
    /\ encryptor.cryptor_ # None
    /\ encryptor.truncatedNonce_ # Nonce(0, 0)
    /\ \E m \in MediaTypes : encryptor.stats_[m].passthroughCount > 0

\* ------------------------------------------------------------------------
\* SpecGen: compute_wrapped_generation at the width of KeyGeneration
\* ------------------------------------------------------------------------
\* 8 * sizeof(KeyGeneration)
KeyGenerationBits == 32
KeyGenHiWrap == 2 ^ (KeyGenerationBits - RATCHET_GENERATION_SHIFT_BITS)

compute_wrapped_generation_u32_CarryOnEqual(oldest, generation) ==
    LET remainder == oldest.lo
        factor == oldest.hi + (IF generation <= remainder THEN 1 ELSE 0)
    IN  KeyGen(factor % KeyGenHiWrap, generation)

\* compute_wrapped_generation, lines 38-45, in uint32_t arithmetic on the two
\* bit fields of oldest, for a generation below GENERATION_WRAP:
\* factor * GENERATION_WRAP keeps the low 8 bits of factor
compute_wrapped_generation_u32(oldest, generation) ==
    LET remainder == oldest.lo
        factor == oldest.hi + (IF generation < remainder THEN 1 ELSE 0)
    IN  KeyGen(factor % KeyGenHiWrap, generation)

\* ++truncatedNonce_ calls made per behaviour
MaxNonceSteps == 3

WrapHighs == {0, 1, 127, KeyGenHiWrap - 2, KeyGenHiWrap - 1}
WrapLows == {0, 1, GenBitsWrap - 1, GENERATION_WRAP - 1}
WrapGenerations == {0, 1, GenBitsWrap - 2, GenBitsWrap - 1, GENERATION_WRAP - 1}

\* an Encryptor two nonces before the end of generation g of its ratchet,
\* after `wraps` wraps of its 32-bit truncatedNonce_
InitGen ==
    /\ now = 0
    /\ ticks = 0
    /\ cryptorManagers_ = <<>>
    /\ ret = NoCall
    /\ IdleDecryptor
    /\ IdleSender
    /\ IdleThreads
    /\ IdleVoice
    /\ wrapped = NoWrapCall
    /\ \E wraps \in {0, 1, KeyGenHiWrap - 2, KeyGenHiWrap - 1},
          g \in {0, GenBitsWrap - 2, GenBitsWrap - 1} :
           generations = [currentKeyGeneration_ |-> KeyGen(wraps, g),
                          truncatedNonce_ |-> Nonce(g, SeqWrap - 2),
                          previous |-> KeyGen(wraps, g), steps |-> 0]

GenCompute(oldest, generation) ==
    /\ wrapped' = [op |-> "compute_wrapped_generation", oldest |-> oldest,
                   generation |-> generation,
                   result |-> compute_wrapped_generation_u32(oldest, generation)]
    /\ UNCHANGED <<clockVars, decryptorVars, senderVars, epoch, ret, threadVars, voiceVars,
                   audioVars, socketVars, courierVars, runVars, streamVars, generations, auxVars>>

\* GetNextCryptorAndNonce, lines 265-270: the nonce and generation it moves to
GenNextNonce ==
    /\ generations.steps < MaxNonceSteps
    /\ LET truncatedNonce == NonceSucc(generations.truncatedNonce_)
           generation == compute_wrapped_generation_u32(generations.currentKeyGeneration_,
                                                        truncatedNonce.gen)
       IN  generations' = [currentKeyGeneration_ |-> generation,
                           truncatedNonce_ |-> truncatedNonce,
                           previous |-> generations.currentKeyGeneration_,
                           steps |-> generations.steps + 1]
    /\ UNCHANGED <<clockVars, decryptorVars, senderVars, epoch, ret, threadVars, voiceVars,
                   audioVars, socketVars, courierVars, runVars, streamVars, wrapped, auxVars>>

NextGen ==
    \/ \E hi \in WrapHighs, lo \in WrapLows, generation \in WrapGenerations :
           GenCompute(KeyGen(hi, lo), generation)
    \/ GenNextNonce

SpecGen == InitGen /\ [][NextGen]_vars

\* a <= b as the integers two KeyGenerations stand for
KeyGenLeq(a, b) == a.hi < b.hi \/ (a.hi = b.hi /\ a.lo <= b.lo)

\* oldest <= v < oldest + GENERATION_WRAP over the integers; v.hi may be 256
InWrapWindow(oldest, v) ==
    \/ v.hi = oldest.hi /\ v.lo >= oldest.lo
    \/ v.hi = oldest.hi + 1 /\ v.lo < oldest.lo

WrapCarry(c) == IF c.generation < c.oldest.lo THEN 1 ELSE 0

\* C25 as stated: compute_wrapped_generation(oldest, gen) is
\* (oldest div W + (gen < oldest mod W ? 1 : 0)) * W + gen, the unique value of
\* [oldest, oldest + W) congruent to gen modulo W, so never below oldest; the
\* encryptor's wrapped generation never decreases.
C25_WrappedGeneration ==
    /\ wrapped.op # "none"
           => /\ wrapped.result = KeyGen(wrapped.oldest.hi + WrapCarry(wrapped),
                                         wrapped.generation)
              /\ InWrapWindow(wrapped.oldest, wrapped.result)
              /\ KeyGenLeq(wrapped.oldest, wrapped.result)
    /\ KeyGenLeq(generations.previous, generations.currentKeyGeneration_)

\* C25, amended: compute_wrapped_generation(oldest, gen) is
\* ((oldest div W + (gen < oldest mod W ? 1 : 0)) * W + gen) mod 2^32; for
\* every gen < W for which the sum stays below 2^32 it is the unique value of
\* [oldest, oldest + W) congruent to gen modulo W, so not below oldest, and
\* it is the value the unbounded formula gives. The encryptor's wrapped
\* generation never decreases as truncated_nonce grows and wraps, up to the
\* wrap of truncated_nonce at which the 32-bit generation itself overflows
\* and returns to 0.
C25_WrappedGenerationModulo ==
    /\ wrapped.op # "none"
           => LET factor == wrapped.oldest.hi + WrapCarry(wrapped)
              IN  /\ wrapped.result = KeyGen(factor % KeyGenHiWrap, wrapped.generation)
                  /\ factor < KeyGenHiWrap
                        => /\ InWrapWindow(wrapped.oldest, wrapped.result)
                           /\ KeyGenLeq(wrapped.oldest, wrapped.result)
                           /\ \A hi \in wrapped.oldest.hi..(wrapped.oldest.hi + 1) :
                                  InWrapWindow(wrapped.oldest, KeyGen(hi, wrapped.generation))
                                  => KeyGen(hi, wrapped.generation) = wrapped.result
                  /\ factor < KeyGenHiWrap \div 2
                        => compute_wrapped_generation(
                               wrapped.oldest.hi * GENERATION_WRAP + wrapped.oldest.lo,
                               wrapped.generation)
                           = wrapped.result.hi * GENERATION_WRAP + wrapped.result.lo
    /\ \/ KeyGenLeq(generations.previous, generations.currentKeyGeneration_)
       \/ /\ generations.previous.hi = KeyGenHiWrap - 1
          /\ generations.truncatedNonce_ = Nonce(0, 0)
          /\ generations.currentKeyGeneration_ = KeyGen(0, 0)

\* a generation below the remainder of oldest was carried into the next
\* window, and the encryptor moved to a new generation
C25_Witness ==
    /\ wrapped.op # "none"
    /\ wrapped.generation < wrapped.oldest.lo
    /\ wrapped.oldest.hi = KeyGenHiWrap - 2
    /\ wrapped.result.hi = KeyGenHiWrap - 1
    /\ generations.steps > 0
    /\ generations.currentKeyGeneration_ # generations.previous
    /\ generations.truncatedNonce_.gen = 0

\* ------------------------------------------------------------------------
\* SpecHello: HELLO and READY frames on the voice websocket
\* ------------------------------------------------------------------------
\* most encryption modes held in modes
MaxModes == 2

HelloIntervals == {None, Some(1000), Some(4000)}
ReadyModes == {<<>>, <<"aead_xchacha20_poly1305_rtpsize">>}

\* voice_opcode_connection_ready, lines 853-915: the modes of the frame are
\* appended to modes; when the UDP socket could be created the
\* select_protocol message is written (ip, port, ssrc and the socket itself
\* are outside the model)
VoiceReady(ready_modes, socket_created) ==
    /\ state = "CONNECTED"
    /\ Len(modes) + Len(ready_modes) <= MaxModes
    /\ Len(message_queue) + Len(written) < MaxQueued
    /\ modes' = modes \o ready_modes
    /\ written' = IF socket_created
                  THEN Append(written, TextFrame("voice_opcode_connection_select_protocol"))
                  ELSE written
    /\ UNCHANGED <<clockVars, decryptorVars, senderVars, epoch, ret, threadVars, voiceVars,
                   audioVars, message_queue, courierVars, runner, state, heartbeat_interval,
                   last_heartbeat, receive_sequence, connect_time, streamVars, genVars, auxVars>>

NextHello ==
    \/ WsHandshake
    \/ \E interval \in HelloIntervals : VoiceHello(interval)
    \/ \E ready_modes \in ReadyModes, socket_created \in BOOLEAN :
           VoiceReady(ready_modes, socket_created)
    \/ \E dave_protocol_version \in {dave_version_none, dave_version_1} :
           VoiceSessionDescription(dave_protocol_version, 0)

SpecHello == InitVoice /\ [][NextHello]_vars

\* C26 as stated: every HELLO records the heartbeat interval, resets
\* receive_sequence to -1 and writes exactly one reply: RESUME if a READY was
\* received before (modes non-empty), IDENTIFY carrying the maximum supported
\* DAVE version otherwise; after the first READY no HELLO produces IDENTIFY.
C26_HelloReply ==
    [][ /\ \A interval \in HelloIntervals :
              VoiceHello(interval)
              => /\ interval # None => heartbeat_interval' = interval[1]
                 /\ receive_sequence' = 0 - 1
                 /\ written' = Append(written,
                                      IF modes # <<>>
                                      THEN TextFrame("voice_opcode_connection_resume")
                                      ELSE IdentifyFrame(MaxSupportedProtocolVersion))
        /\ \A ready_modes \in ReadyModes, socket_created \in BOOLEAN :
              VoiceReady(ready_modes, socket_created) => modes' # <<>>
        /\ modes # <<>> => modes' # <<>> ]_vars

\* C26, amended: every HELLO resets receive_sequence to -1 and writes exactly
\* one reply; it records the heartbeat interval when the frame carries one
\* and keeps the earlier interval otherwise. The reply is RESUME if modes is
\* non-empty, which is the case once a READY listing at least one mode was
\* received, and IDENTIFY otherwise, carrying the client's dave_version as
\* max_dave_protocol_version: 1 if DAVE is enabled and 0 if it is not. Once
\* modes is non-empty no later HELLO produces IDENTIFY.
C26_HelloReplyByModes ==
    [][ /\ \A interval \in HelloIntervals :
              VoiceHello(interval)
              => /\ heartbeat_interval' =
                        IF interval = None THEN heartbeat_interval ELSE interval[1]
                 /\ receive_sequence' = 0 - 1
                 /\ written' = Append(written,
                                      IF modes # <<>>
                                      THEN TextFrame("voice_opcode_connection_resume")
                                      ELSE IdentifyFrame(dave_version))
                 /\ dave_version \in {dave_version_none, dave_version_1}
        /\ \A ready_modes \in ReadyModes, socket_created \in BOOLEAN :
              VoiceReady(ready_modes, socket_created)
              => /\ modes' = modes \o ready_modes
                 /\ ready_modes # <<>> => modes' # <<>>
        /\ modes # <<>> => modes' # <<>> ]_vars

\* a client without DAVE identified itself with version 0, received a READY
\* with a mode and answered the next HELLO with RESUME
C26_Witness ==
    /\ modes # <<>>
    /\ heartbeat_interval # 0
    /\ \E i \in 1..Len(written), j \in 1..Len(written) :
           /\ i < j
           /\ written[i] = IdentifyFrame(dave_version_none)
           /\ written[j] = TextFrame("voice_opcode_connection_resume")

\* ------------------------------------------------------------------------
\* SpecTerm: the terminating flag, set by error() inside the read loop or by
\* cleanup() on another thread, against thread_run and one_second_timer
\* ------------------------------------------------------------------------
\* cleanup, lines 417-420: with a runner thread, terminating is set and the
\* join begins
CleanupBegin ==
    /\ runner.cleanup = "none"
    /\ terminating' = TRUE
    /\ runner' = [runner EXCEPT !.cleanup = "join"]
    /\ UNCHANGED <<clockVars, decryptorVars, senderVars, epoch, ret, threadVars, voiceVars,
                   outbuf, track_meta, tracks, timescale, socketVars, courierVars,
                   sessionVars, streamVars, genVars, auxVars>>

\* cleanup, lines 421-423: runner->join() returns once thread_run has returned
CleanupJoin ==
    /\ runner.cleanup = "join"
    /\ runner.pc \in {"done", "aborted"}
    /\ runner' = [runner EXCEPT !.cleanup = "joined"]
    /\ UNCHANGED <<clockVars, decryptorVars, senderVars, epoch, ret, threadVars, voiceVars,
                   audioVars, socketVars, courierVars, sessionVars, streamVars, genVars, auxVars>>

\* one_second_timer, called by the read loop once a second while terminating
\* is unset
TermTimer == runner.pc = "read_loop" /\ VoiceOneSecondTimer

\* one_second_timer with terminating set, lines 1359-1361: it throws before
\* anything else, the exception unwinds ssl_client::read_loop, and thread_run
\* goes on from the return of the read loop
TermTimerThrow == terminating /\ ThreadRunReadLoop(0)

\* returns of the read loop and connection attempts made before terminating
\* is set
MaxTermReturns == 2
MaxTermConnects == 2

\* the read loop returns for another reason; the bounds apply until
\* terminating is set, never to the thread that terminates
TermReadLoop(elapsed) ==
    (terminating \/ Len(runner.returns) < MaxTermReturns) /\ ThreadRunReadLoop(elapsed)

TermConnect(established) ==
    (terminating \/ runner.connects < MaxTermConnects) /\ ThreadRunConnect(established)

\* error() is called by the frame handler, inside the read loop
TermError(errorcode) == runner.pc = "read_loop" /\ VoiceError(errorcode)

NextTerm ==
    \/ WsHandshake
    \/ VoiceHello(Some(1000))
    \/ VoiceQueueMessage("voice_opcode_client_speaking", FALSE)
    \/ TermTimer
    \/ TermTimerThrow
    \/ TermReadLoop(3000)
    \/ \E established \in BOOLEAN : TermConnect(established)
    \/ \E errorcode \in {4006, 4014} : TermError(errorcode)
    \/ CleanupBegin
    \/ CleanupJoin

SpecTerm == InitVoice /\ [][NextTerm]_vars

\* the read loop calls one_second_timer every second, connect() returns or
\* throws, and a join returns once its thread has ended
FairTerm ==
    /\ SpecTerm
    /\ WF_vars(TermTimerThrow)
    /\ WF_vars(\E established \in BOOLEAN : TermConnect(established))
    /\ WF_vars(CleanupJoin)

Returned == runner.pc \in {"done", "aborted"}

\* C27 as stated: once terminating is set the next one_second_timer call
\* throws before writing a queued message or heartbeat, thread_run makes no
\* further reconnect attempt, and thread_run eventually returns so that the
\* join of cleanup() completes.
C27_Termination ==
    /\ [][ /\ TermTimerThrow => UNCHANGED <<message_queue, written, last_heartbeat>>
           /\ terminating => (written' = written \/ VoiceHello(Some(1000)))
           /\ terminating => runner'.connects = runner.connects
           /\ runner'.cleanup = "joined" => Returned' ]_vars
    /\ terminating ~> Returned
    /\ (runner.cleanup = "join") ~> (runner.cleanup = "joined")

\* C27, amended: once terminating is set the next one_second_timer call
\* throws before writing a queued message or heartbeat, and thread_run
\* eventually returns so that the join of cleanup() completes. A thread_run
\* that finds the flag set when its read loop returns makes no reconnect
\* attempt; one that had already read the flag as unset when cleanup() set it
\* makes that one attempt and returns right after it, whatever its outcome.
C27_TerminationAfterFlag ==
    /\ [][ /\ TermTimerThrow => UNCHANGED <<message_queue, written, last_heartbeat>>
           /\ terminating => (written' = written \/ VoiceHello(Some(1000)))
           /\ (terminating /\ runner.pc = "read_loop") => runner'.pc # "connect"
           /\ (terminating /\ runner'.connects # runner.connects)
                 => /\ runner'.connects = runner.connects + 1
                    /\ runner'.pc = "done"
           /\ runner'.cleanup = "joined" => Returned' ]_vars
    /\ terminating ~> Returned
    /\ (runner.cleanup = "join") ~> (runner.cleanup = "joined")

\* cleanup() has joined a thread_run that had written a queued message and
\* made a reconnect attempt
C27_Witness ==
    /\ runner.cleanup = "joined"
    /\ runner.pc = "done"
    /\ runner.connects > 0
    /\ written # <<>>
    /\ message_queue # <<>>

\* ------------------------------------------------------------------------
\* The courier's per-speaker loop and the range of a parking lot (SpecLot)
\* ------------------------------------------------------------------------
\* C28 as stated: a delivery decodes every drained payload once and conceals
\* only sequence numbers between the lot's min_seq and the highest drained
\* sequence number, so its decode calls, concealment included, number at most
\* the width of that range.
C28_ConcealmentWithinRange ==
    delivered # <<>>
    => LET seqs == {delivered[i].seq : i \in 1..Len(delivered)}
           highest == CHOOSE h \in seqs : \A q \in seqs : q <= h
       IN  opus.plc + Len(delivered) <= highest - opus.min_seq + 1

\* C29 as stated: a drain leaves the lot's queue empty and its min_seq and
\* min_timestamp strictly above the sequence number and timestamp of every
\* payload it hands to the courier, whatever the order of arrival; a packet
\* parked with both below the minimum is discarded.
C29_RangeAboveDrained ==
    [][ /\ CourierDrain
           => /\ parking_lot'.parked_payloads = {}
              /\ \A vp \in parking_lot.parked_payloads :
                     /\ parking_lot'.range.min_seq > vp.seq
                     /\ parking_lot'.range.min_timestamp > vp.timestamp
        /\ \A vp \in {<<5000, 960>>, <<5001, 1920>>, <<5002, 2880>>} :
              (/\ CourierPark(vp[1], vp[2])
               /\ parking_lot.decoder
               /\ vp[1] < parking_lot.range.min_seq
               /\ vp[2] < parking_lot.range.min_timestamp)
              => parking_lot'.parked_payloads = parking_lot.parked_payloads ]_vars

\* ------------------------------------------------------------------------
\* SpecStop: the courier between arriving packets and cleanup()
\* ------------------------------------------------------------------------
NextStop ==
    \/ \E vp \in {<<5000, 960>>, <<5001, 1920>>} : CourierPark(vp[1], vp[2])
    \/ CourierDrain
    \/ \E spurious \in BOOLEAN : CourierWake(spurious)
    \/ \E bound \in BOOLEAN : CourierDeliver(bound)
    \/ CourierCleanup

SpecStop == InitVoice /\ [][NextStop]_vars

\* the courier thread is scheduled: its sleep ends, a notified wait returns,
\* and a delivery comes to its end
FairStop ==
    /\ SpecStop
    /\ WF_vars(CourierDrain)
    /\ WF_vars(CourierWake(FALSE))
    /\ WF_vars(\E bound \in BOOLEAN : CourierDeliver(bound))

\* C30: once cleanup() has set terminating and notified the courier, the
\* courier takes every payload still parked through a delivery (to the
\* handlers bound, all payloads taken in one drain together) and only then
\* exits, with nothing parked and nothing taken left over; it always exits,
\* wherever it was when the flag was set, so the join returns.
C30_CourierShutdown ==
    /\ [][ /\ courier'.pc = "exited"
               => /\ courier.terminating
                  /\ parking_lot.parked_payloads = {}
                  /\ parking_lot'.parked_payloads = {}
                  /\ courier'.flush_data = None
           /\ (courier.terminating /\ parking_lot.parked_payloads # {})
               => \/ parking_lot'.parked_payloads = parking_lot.parked_payloads
                  \/ /\ courier'.pc = "deliver"
                     /\ courier'.flush_data[1].parked_payloads = parking_lot.parked_payloads
           /\ (courier.terminating /\ CourierDeliver(TRUE))
               => {delivered'[i] : i \in 1..Len(delivered')}
                  = courier.flush_data[1].parked_payloads ]_vars
    /\ courier.terminating ~> (courier.pc = "exited")

\* the courier exited after cleanup() found it with payloads parked and it
\* delivered them
C30_Witness ==
    /\ courier.pc = "exited"
    /\ courier.terminating
    /\ Len(delivered) = 2
    /\ parking_lot.range.min_seq = 5002


\* ------------------------------------------------------------------------
\* Track markers in the outbound queue (SpecTrack)
\* ------------------------------------------------------------------------
\* skip_to_next_marker, lines 1465-1491, all of it under stream_mutex: outbuf
\* loses its packets up to and including the first marker, or all of them
\* when it holds no marker; then tracks is counted down and the first
\* track_meta is dropped, whatever was found
VoiceSkipToNextMarker ==
    LET first == IF \E i \in 1..Len(outbuf) : IsTrackMarker(outbuf[i])
                 THEN CHOOSE i \in 1..Len(outbuf) :
                          /\ IsTrackMarker(outbuf[i])
                          /\ \A k \in 1..(i - 1) : ~IsTrackMarker(outbuf[k])
                 ELSE Len(outbuf)
    IN  /\ outbuf' = SubSeq(outbuf, first + 1, Len(outbuf))
        /\ tracks' = IF tracks > 0 THEN tracks - 1 ELSE tracks
        /\ track_meta' = IF track_meta # <<>> THEN Tail(track_meta) ELSE track_meta
        /\ access' = access \cup {[method |-> "skip_to_next_marker", field |-> f,
                                    held |-> {"stream_mutex"}]
                                      : f \in {"outbuf", "tracks", "track_meta"}}
        /\ UNCHANGED <<clockVars, decryptorVars, senderVars, epoch, ret, threadVars, voiceVars,
                       terminating, timescale, socketVars, courierVars, runVars, paused,
                       genVars, auxVars>>

\* stop_audio, lines 950-956
VoiceStopAudio ==
    /\ outbuf' = <<>>
    /\ track_meta' = <<>>
    /\ tracks' = 0
    /\ access' = access \cup {[method |-> "stop_audio", field |-> f,
                                held |-> {"stream_mutex"}]
                                  : f \in {"outbuf", "tracks", "track_meta"}}
    /\ UNCHANGED <<clockVars, decryptorVars, senderVars, epoch, ret, threadVars, voiceVars,
                   terminating, timescale, socketVars, courierVars, runVars, paused,
                   genVars, auxVars>>

\* the metadata insert_marker is called with
TrackMetadata == {"intro", "verse"}
\* the track markers of a queue, in order
Markers(q) == SelectSeq(q, IsTrackMarker)

\* audio packets sent between the markers
MaxTrackPackets == 2

NextTrack ==
    \/ Len(sent) < MaxTrackPackets /\ VoiceSendAudioOpus(Payload, PacketDuration)
    \/ \E metadata \in TrackMetadata :
           /\ tracks < MaxTrackMeta
           /\ Len(track_meta) < MaxTrackMeta
           /\ Len(Markers(outbuf)) < MaxTrackMeta
           /\ insert_marker(metadata)
    \/ \E sent_whole \in BOOLEAN, buffer_send \in BOOLEAN, track_marker \in BOOLEAN :
           VoiceWriteReady(sent_whole, buffer_send, track_marker)
    \/ VoiceSkipToNextMarker
    \/ VoiceStopAudio

SpecTrack == InitVoice /\ [][NextTrack]_vars

\* C31 as stated: write_ready never passes a track marker to udp_send,
\* whatever outbuf holds.
C31_MarkerNeverSent ==
    \A packet \in udp_out : packet # [payload |-> <<255, 255>>]

\* C32 as stated: tracks is the number of track markers in outbuf, track_meta
\* holds the metadata of exactly those markers in their order, and every
\* track-marker event carried the metadata its marker was queued with.
C32_TrackBookkeeping ==
    /\ tracks = Len(Markers(outbuf))
    /\ track_meta = [i \in 1..Len(Markers(outbuf)) |-> Markers(outbuf)[i].queued]
    /\ \A event \in marker_events : event.track_meta = event.queued


\* ------------------------------------------------------------------------
\* The reconnect loop of thread_run (SpecRun)
\* ------------------------------------------------------------------------
\* C33 as stated: a connection attempt that succeeds while terminating is
\* unset ends the retry loop, after failed attempts too: thread_run issues no
\* further connect() and goes back to the read loop.
C33_RetryExitsOnSuccess ==
    [][(ThreadRunConnect(TRUE) /\ ~terminating) => runner'.pc = "read_loop"]_vars


\* ------------------------------------------------------------------------
\* The order of the cipher managers of a decryptor (SpecExpiry)
\* ------------------------------------------------------------------------
\* the sender encrypts audio under its ratchet, the decryptor is handed
\* ratchets (or none) with either transition expiry, the clock moves on and
\* the frames on the wire are decrypted
\* Encrypt and decrypt calls per behaviour
MaxExpiryCalls == 2
\* clock advances per behaviour
MaxExpiryTicks == 2

NextExpiry ==
    \/ ticks < MaxExpiryTicks /\ Tick(CIPHER_EXPIRY)
    \/ SenderSetKeyRatchet
    \/ EncryptCalls + DecryptCalls < MaxExpiryCalls /\ SenderEncrypt("audio", "Unknown", 0)
    \/ \E transitionExpiry \in TransitionExpiries,
          keyRatchet \in {None, Some(epoch.receiver + 1)} :
           DecTransitionToKeyRatchet(keyRatchet, transitionExpiry)
    \/ /\ EncryptCalls + DecryptCalls < MaxExpiryCalls
       /\ \E i \in 1..Len(wire) : DecDecrypt(wire[i].mediaType, wire[i].frame)

SpecExpiry == InitDec /\ [][NextExpiry]_vars

\* expiry times do not decrease from the head of the queue to its tail
ExpiryOrdered(managers) ==
    \A i \in 1..Len(managers), j \in 1..Len(managers) :
        i < j => managers[i].ratchetExpiry_ <= managers[j].ratchetExpiry_

\* C34: after any sequence of TransitionToKeyRatchet calls, with or without a
\* ratchet, the expiry times of cryptorManagers_ are non-decreasing from the
\* oldest manager to the newest; so the removal from the head that decrypt
\* starts with leaves no expired manager in the queue, and the managers a
\* frame is tried against are the ones left, none of them expired.
C34_ManagerQueueOrdered ==
    /\ []ExpiryOrdered(cryptorManagers_)
    /\ [][\A i \in 1..Len(wire) :
              DecDecrypt(wire[i].mediaType, wire[i].frame)
              => /\ NoneExpired(CleanupExpiredCryptorManagers(cryptorManagers_, now))
                 /\ NoneExpired(cryptorManagers_')
                 /\ Len(cryptorManagers_') =
                        Len(CleanupExpiredCryptorManagers(cryptorManagers_, now))]_vars

\* the manager of the first ratchet expired and was removed by the decrypt
\* just made, which opened the frame with the manager of the second ratchet
C34_Witness ==
    /\ ret.op = "decrypt" /\ ret.bytesWritten > 0
    /\ Len(cryptorManagers_) = 1
    /\ cryptorManagers_[1].keyRatchet_.id = 2


\* ------------------------------------------------------------------------
\* Inbound RTP packets (SpecInbound)
\* ------------------------------------------------------------------------
\* a - b at the width of size_t: when b > a the subtraction wraps, and the
\* result 2^64 - (b - a) is written as the borrow with the distance b - a
SizeSub(a, b) ==
    IF a >= b THEN [borrow |-> FALSE, value |-> a - b]
    ELSE [borrow |-> TRUE, value |-> b - a]

\* map[key] = value on a std::map or std::unordered_map
MapPut(map, key, value) ==
    [k \in DOMAIN map \cup {key} |-> IF k = key THEN value ELSE map[k]]

\* map.erase(it) for the entry with this key
MapErase(map, key) == [k \in DOMAIN map \ {key} |-> map[k]]

\* read_ready, lines 966-1069, for a packet of packet_size bytes whose first
\* byte carries csrc_count and the extension bit and whose second byte carries
\* payload_type: with no receive handler bound (receive_handler), for the
\* packets shorter than an RTP header or than 44 bytes and for the RTCP
\* payload types it returns early; for the others the offsets handed to
\* crypto_aead_xchacha20poly1305_ietf_decrypt are computed. Looking up the
\* speaker with ssrc_map[speaker_ssrc] (line 1010) adds an entry with the
\* null snowflake 0 for an SSRC the map does not hold.
VoiceReadReady(packet_size, csrc_count, uses_extension, payload_type, receive_handler, speaker_ssrc) ==
    LET header_size == 12
        nonce_size == 4
        ext_header_len == 4
        offset_to_data == header_size + 4 * csrc_count
        total_header_len == offset_to_data + (IF uses_extension THEN ext_header_len ELSE 0)
        ciphertext_len == SizeSub(packet_size, total_header_len + nonce_size)
        dropped == \/ packet_size <= 0 \/ ~receive_handler
                   \/ packet_size < header_size
                   \/ packet_size < 44
                   \/ (72 <= payload_type /\ payload_type <= 76)
    IN  /\ inbound' = [op |-> "read_ready", packet_size |-> packet_size,
                       csrc_count |-> csrc_count, uses_extension |-> uses_extension,
                       payload_type |-> payload_type, aead |-> ~dropped,
                       total_header_len |-> total_header_len,
                       ciphertext_len |-> ciphertext_len]
        /\ ssrc_map' = IF dropped \/ speaker_ssrc \in DOMAIN ssrc_map THEN ssrc_map
                       ELSE MapPut(ssrc_map, speaker_ssrc, 0)
        /\ UNCHANGED <<clockVars, decryptorVars, senderVars, epoch, ret, threadVars, voiceVars,
                       audioVars, socketVars, courierVars, runVars, streamVars, genVars,
                       trackVars, raw_audio, fault, daveVars>>

\* packet lengths around the limits 12 and 44 and around the longest header
PacketSizes == {11, 12, 43, 44, 60, 79, 80, 200}
\* CSRC counts: none, the most that fit 44 bytes, one more, and the most
CsrcCounts == {0, 7, 8, 15}
\* the SSRCs of the speakers
Ssrcs == {101, 102}
\* the Opus payload type Discord uses, and the ends of the RTCP range
PayloadTypes == {72, 76, 120}

NextInbound ==
    \E packet_size \in PacketSizes, csrc_count \in CsrcCounts, uses_extension \in BOOLEAN,
       payload_type \in PayloadTypes, receive_handler \in BOOLEAN, speaker_ssrc \in Ssrcs :
        VoiceReadReady(packet_size, csrc_count, uses_extension, payload_type, receive_handler,
                       speaker_ssrc)

SpecInbound == InitVoice /\ [][NextInbound]_vars

\* C35 as stated: for every packet read_ready passes to the transport AEAD,
\* the header (12 bytes, 4 per CSRC, 4 more with the extension bit) and the
\* 4-byte nonce fit in the packet, so the ciphertext length does not wrap.
C35_InboundBounds ==
    (inbound.op = "read_ready" /\ inbound.aead)
    => /\ inbound.total_header_len + 4 <= inbound.packet_size
       /\ ~inbound.ciphertext_len.borrow


\* ------------------------------------------------------------------------
\* DAVE frames in any order (SpecFrames)
\* ------------------------------------------------------------------------
\* the frames whose handlers go through mls_state, lines 562-633 and 680-716
DaveFrames == {"voice_client_dave_mls_external_sender", "voice_client_dave_mls_proposals",
               "voice_client_dave_announce_commit_transaction",
               "voice_client_dave_mls_welcome",
               "voice_client_dave_mls_invalid_commit_welcome",
               "voice_client_dave_execute_transition", "voice_client_dave_prepare_epoch"}

\* handle_frame for a DAVE frame that meets a null pointer. None of the
\* handlers tests mls_state, which is null until a session description
\* arrives on a client that asked for DAVE (lines 818-833); prepare_epoch
\* goes through it only for epoch 1. mls_state->encryptor is null until the
\* external sender frame (line 572): the announce-commit handler calls
\* SetKeyRatchet through it (line 596), the welcome handler only when the
\* session processed the welcome (line 620). Dereferencing the null
\* unique_ptr is undefined; whatever the process does then, fault names the
\* dereference, and the behaviour is not followed further.
VoiceDaveFault(frame, processed, prepared_epoch) ==
    LET through_state == frame = "voice_client_dave_prepare_epoch" => prepared_epoch = 1
        through_encryptor ==
            \/ frame = "voice_client_dave_announce_commit_transaction"
            \/ frame = "voice_client_dave_mls_welcome" /\ processed
    IN  /\ fault = NoFault
        /\ \/ /\ mls_state = None
              /\ through_state
              /\ fault' = [frame |-> frame, pointer |-> "mls_state"]
           \/ /\ mls_state # None
              /\ ~mls_state[1].has_encryptor
              /\ through_encryptor
              /\ fault' = [frame |-> frame, pointer |-> "mls_state->encryptor"]
        /\ UNCHANGED <<clockVars, decryptorVars, senderVars, epoch, ret, threadVars, voiceVars,
                       audioVars, socketVars, courierVars, runVars, streamVars, genVars,
                       trackVars, raw_audio, inbound, ssrc_map, daveVars>>

NextFrames ==
    /\ fault = NoFault
    /\ \/ \E dave_protocol_version \in {dave_version_none, dave_version_1} :
              VoiceSessionDescription(dave_protocol_version, 0)
       \/ VoiceExternalSender
       \/ \E welcome \in BOOLEAN, processed \in BOOLEAN :
              VoiceMlsTransition(welcome, processed)
       \/ \E frame \in DaveFrames, processed \in BOOLEAN, prepared_epoch \in {1, 2} :
              VoiceDaveFault(frame, processed, prepared_epoch)

SpecFrames == InitVoice /\ [][NextFrames]_vars

\* C36 as stated: in whatever order the server sends its frames, handle_frame
\* dereferences neither mls_state nor its encryptor while they are null.
C36_NoNullDereference == fault = NoFault


\* ------------------------------------------------------------------------
\* The SSRC map (SpecSsrc)
\* ------------------------------------------------------------------------
\* voice_opcode_client_speaking and voice_opcode_client_connect, lines
\* 732-757, for a frame that carries user_id and an integer ssrc
VoiceClientSpeaking(u_ssrc, u_id) ==
    /\ ssrc_map' = MapPut(ssrc_map, u_ssrc, u_id)
    /\ UNCHANGED <<clockVars, decryptorVars, senderVars, epoch, ret, threadVars, voiceVars,
                   audioVars, socketVars, courierVars, runVars, streamVars, genVars,
                   trackVars, raw_audio, inbound, fault, daveVars>>

\* voice_opcode_client_disconnect, lines 718-731, for a frame that carries
\* user_id: std::find_if yields one entry whose user is u_id, the first in
\* the iteration order of the map, and that entry is erased
VoiceClientDisconnect(u_id) ==
    /\ IF \E k \in DOMAIN ssrc_map : ssrc_map[k] = u_id
       THEN \E it \in {k \in DOMAIN ssrc_map : ssrc_map[k] = u_id} :
                ssrc_map' = MapErase(ssrc_map, it)
       ELSE UNCHANGED ssrc_map
    /\ UNCHANGED <<clockVars, decryptorVars, senderVars, epoch, ret, threadVars, voiceVars,
                   audioVars, socketVars, courierVars, runVars, streamVars, genVars,
                   trackVars, raw_audio, inbound, fault, daveVars>>

\* the snowflakes of the users in the channel
UserIds == {1, 2}
\* the SSRCs the server announces: audio and video streams of the users
AnnouncedSsrcs == Ssrcs \cup {103}

NextSsrc ==
    \/ \E u_ssrc \in AnnouncedSsrcs, u_id \in UserIds : VoiceClientSpeaking(u_ssrc, u_id)
    \/ \E u_id \in UserIds : VoiceClientDisconnect(u_id)
    \/ \E speaker_ssrc \in Ssrcs, uses_extension \in BOOLEAN :
           VoiceReadReady(200, 0, uses_extension, 120, TRUE, speaker_ssrc)

SpecSsrc == InitVoice /\ [][NextSsrc]_vars

\* C37 as stated: after CLIENT_DISCONNECT for a user no SSRC maps to that
\* user, however many were announced for them, and the entries of the other
\* users are as before.
C37_DisconnectDropsUser ==
    [][\A u_id \in UserIds :
          VoiceClientDisconnect(u_id)
          => /\ \A k \in DOMAIN ssrc_map' : ssrc_map'[k] # u_id
             /\ \A k \in DOMAIN ssrc_map :
                    ssrc_map[k] # u_id => (k \in DOMAIN ssrc_map' /\ ssrc_map'[k] = ssrc_map[k])]_vars


\* ------------------------------------------------------------------------
\* Commits and welcomes with a member list (SpecCommit)
\* ------------------------------------------------------------------------
\* voice_opcode_multiple_clients_connect, lines 675-679
VoiceClientsConnect(user_ids) ==
    /\ dave_mls_user_list' = user_ids
    /\ UNCHANGED <<clockVars, decryptorVars, senderVars, epoch, ret, threadVars, voiceVars,
                   audioVars, socketVars, courierVars, runVars, streamVars, genVars,
                   trackVars, raw_audio, inbound, fault, ssrc_map, decryptors>>

\* frames encrypted per behaviour
MaxCommitCalls == 1
\* session descriptions per behaviour
MaxCommitDescriptions == 1
\* the member lists the server announces
MemberLists == {{1}, {1, 2}}

NextCommit ==
    \/ secret_key < MaxCommitDescriptions /\ VoiceSessionDescription(dave_version_1, 0)
    \/ VoiceExternalSender
    \/ \E user_ids \in MemberLists : VoiceClientsConnect(user_ids)
    \/ \E welcome \in BOOLEAN, processed \in BOOLEAN : VoiceMlsTransition(welcome, processed)
    \/ Len(wire) < MaxCommitCalls /\ SenderEncrypt("audio", "Unknown", 0)

SpecCommit == InitVoice /\ [][NextCommit]_vars

\* the Decryptor of a user, as its cipher managers; a user without one
\* counts as holding a Decryptor just constructed
DecryptorOf(user) == IF user \in DOMAIN decryptors THEN decryptors[user] ELSE <<>>

\* C38 as stated: after an announce-commit the session has processed the
\* cached commit, every user of the member list has a new Decryptor whose
\* only cipher manager holds the user's ratchet of the new epoch, and the
\* Encryptor holds the self-ratchet with a truncated nonce of 0.
C38_AnnounceCommit ==
    [][\A processed \in BOOLEAN :
          VoiceMlsTransition(FALSE, processed)
          => /\ mls_state'[1].processed = mls_state[1].processed + 1
             /\ \A user \in dave_mls_user_list :
                    /\ user \in DOMAIN decryptors'
                    /\ decryptors'[user]
                       = <<NewManager(now, UserRatchet(user, epoch'.receiver))>>
             /\ encryptor'.keyRatchet_ = Some(NewRatchet(epoch'.sender))
             /\ encryptor'.truncatedNonce_ = Nonce(0, 0)]_vars

\* C38: an announce-commit hands the cached commit to the session. Then
\* every user of the member list has a Decryptor, a new one only if the user
\* had none: its earlier cipher managers are kept, with their expiry clamped
\* to the transition expiry from now, and, when the session holds a group
\* state, a manager without expiry for the ratchet the session derives for
\* the user is appended as the newest; after a processed commit that is the
\* ratchet of the new epoch. The Decryptors of other users are untouched,
\* and the Encryptor holds the session's self-ratchet (none without a group
\* state) with no cached cryptor, generation 0 and a truncated nonce of 0.
C38_AnnounceCommitTransitions ==
    [][\A processed \in BOOLEAN :
          VoiceMlsTransition(FALSE, processed)
          => LET n == mls_state'[1].processed
             IN  /\ n = mls_state[1].processed + (IF processed THEN 1 ELSE 0)
                 /\ processed => epoch'.receiver = epoch.receiver + 1
                 /\ \E transitionExpiry \in TransitionExpiries :
                        \A user \in dave_mls_user_list :
                            /\ user \in DOMAIN decryptors'
                            /\ Len(decryptors'[user])
                               = Len(DecryptorOf(user)) + (IF n > 0 THEN 1 ELSE 0)
                            /\ \A k \in 1..Len(DecryptorOf(user)) :
                                   decryptors'[user][k]
                                   = [DecryptorOf(user)[k] EXCEPT
                                         !.ratchetExpiry_ = Min(@, now + transitionExpiry)]
                            /\ n > 0
                               => decryptors'[user][Len(decryptors'[user])]
                                  = NewManager(now, UserRatchet(user, epoch'.receiver))
                 /\ \A user \in DOMAIN decryptors \ dave_mls_user_list :
                        user \in DOMAIN decryptors' /\ decryptors'[user] = decryptors[user]
                 /\ encryptor' =
                        [encryptor EXCEPT
                            !.keyRatchet_ = IF n > 0 THEN Some(NewRatchet(epoch'.sender))
                                            ELSE None,
                            !.cryptor_ = None, !.currentKeyGeneration_ = 0,
                            !.truncatedNonce_ = Nonce(0, 0)]]_vars

\* a second commit was processed after a frame was encrypted in the first
\* epoch: user 1 keeps the manager of the first epoch, now with an expiry,
\* beside the one of the second, and the Encryptor starts the second epoch
\* from nonce 0
C38_Witness ==
    /\ mls_state # None /\ mls_state[1].processed = 2
    /\ wire # <<>>
    /\ 1 \in DOMAIN decryptors /\ Len(decryptors[1]) = 2
    /\ decryptors[1][1].ratchetExpiry_ < TimePointMax
    /\ decryptors[1][2] = NewManager(now, UserRatchet(1, 2))
    /\ encryptor.keyRatchet_ = Some(NewRatchet(2))
    /\ encryptor.truncatedNonce_ = Nonce(0, 0)

\* C39 as stated: when the session fails to process the cached commit or a
\* welcome, the Decryptors with their cipher managers and expiries, the
\* Encryptor's ratchet and nonce and the privacy code are as before the frame.
C39_FailedStepChangesNothing ==
    [][\A welcome \in BOOLEAN :
          VoiceMlsTransition(welcome, FALSE)
          => /\ UNCHANGED <<cryptorManagers_, encryptor>>
             /\ \A user \in DOMAIN decryptors :
                    user \in DOMAIN decryptors' /\ decryptors'[user] = decryptors[user]
             /\ mls_state'[1].privacy_code = mls_state[1].privacy_code]_vars

\* ------------------------------------------------------------------------
\* Raw audio
\* ------------------------------------------------------------------------
\* the bytes of one encoder frame: 2880 samples of two 16-bit channels.
\* encode takes whole frames only (mEncFrameBytes), and send_audio_raw hands
\* it pieces of this length
send_audio_raw_max_length == 11520
mEncFrameSize == 2880

\* send_audio_raw calls per behaviour
MaxRawCalls == 2

\* A piece of the caller's buffer as handed to encode: size input bytes from
\* offset first on, followed by padding zero bytes.
Piece(first, size, padding) == [first |-> first, size |-> size, padding |-> padding]

\* the loop of lines 1521-1528: while more than send_audio_raw_max_length
\* bytes are left in s_audio_data, the first send_audio_raw_max_length of
\* them are cut off and sent by a nested call, which finds them neither
\* longer nor shorter than the maximum and encodes them. The function
\* returns when the loop ends (line 1530).
RECURSIVE SplitRaw(_, _)
SplitRaw(first, left) ==
    IF left > send_audio_raw_max_length
    THEN <<Piece(first, send_audio_raw_max_length, 0)>>
         \o SplitRaw(first + send_audio_raw_max_length, left - send_audio_raw_max_length)
    ELSE <<>>

\* send_audio_raw, lines 1508-1551: whether it throws, and the pieces it
\* hands to encode, in order
send_audio_raw(length) ==
    IF length < 4 \/ length % 4 # 0
    THEN [thrown |-> TRUE, pieces |-> <<>>]
    ELSE IF length > send_audio_raw_max_length
    THEN [thrown |-> FALSE, pieces |-> SplitRaw(0, length)]
    ELSE IF length < send_audio_raw_max_length
    THEN [thrown |-> FALSE,
          pieces |-> <<Piece(0, length, send_audio_raw_max_length - length)>>]
    ELSE [thrown |-> FALSE, pieces |-> <<Piece(0, length, 0)>>]

\* encode (1391-1440) of one frame and send_audio_opus (1553-1562): the Opus
\* packet stands for the piece it was encoded from, and its duration is
\* that of the samples of one frame
RECURSIVE EncodeAndSend(_, _)
EncodeAndSend(v, pieces) ==
    IF pieces = <<>>
    THEN v
    ELSE EncodeAndSend(send_audio_opus(v, [encoded |-> Head(pieces)],
                                       (mEncFrameSize \div 48) \div (v.timescale \div 1000000)),
                       Tail(pieces))

VoiceSendAudioRaw(length) ==
    /\ Len(raw_audio) < MaxRawCalls
    /\ LET call == send_audio_raw(length)
           v == EncodeAndSend(VoiceState, call.pieces)
       IN  /\ raw_audio' = Append(raw_audio, [length |-> length, thrown |-> call.thrown,
                                              pieces |-> call.pieces])
           /\ sequence' = v.sequence
           /\ timestamp' = v.timestamp
           /\ packet_nonce' = v.packet_nonce
           /\ sending' = v.sending
           /\ sent' = v.sent
           /\ outbuf' = v.outbuf
           /\ message_queue' = v.message_queue
    /\ UNCHANGED <<clockVars, decryptorVars, senderVars, epoch, ret, threadVars,
                   secret_key, has_secret_key, dave_version, mls_state,
                   terminating, track_meta, tracks, timescale, written, courierVars, runVars,
                   streamVars, genVars, trackVars, peerVars>>

\* lengths below 4, not divisible by 4, below, at and above one, two and
\* three frames
RawLengths == {0, 2, 4, 6, 11516, 11520, 11524, 23040, 23044, 34564}

NextRaw == \E length \in RawLengths : VoiceSendAudioRaw(length)

SpecRaw == InitVoice /\ [][NextRaw]_vars

\* the input bytes the first count pieces carry
RECURSIVE Carried(_, _)
Carried(pieces, count) ==
    IF count = 0 THEN 0 ELSE Carried(pieces, count - 1) + pieces[count].size

\* C40 as stated: a send_audio_raw call with a length of at least 4 that is
\* a multiple of 4 returns, and the pieces it encodes and queues carry every
\* input byte once and in order: each piece starts where the one before it
\* ended, all are of the maximum length, only the last is zero-padded, and
\* together they carry length bytes.
C40_RawCoversInput ==
    \A i \in 1..Len(raw_audio) :
        LET call == raw_audio[i]
        IN  (call.length >= 4 /\ call.length % 4 = 0)
            => /\ ~call.thrown
               /\ \A k \in 1..Len(call.pieces) :
                      /\ call.pieces[k].first = Carried(call.pieces, k - 1)
                      /\ call.pieces[k].size + call.pieces[k].padding
                             = send_audio_raw_max_length
                      /\ call.pieces[k].padding > 0 => k = Len(call.pieces)
               /\ Carried(call.pieces, Len(call.pieces)) = call.length

====
